---- MODULE Spec2Model ----
(***************************************************************************)
(* Detection-and-classification pipeline of the avocado-care backend:      *)
(*   backend/routes/ripeness_routes.py      (/api/ripeness/predict)        *)
(*   backend/routes/leaves_routes.py        (/api/leaves/predict)          *)
(*   backend/routes/fruitdisease_routes.py  (/api/fruitdisease/predict)    *)
(*   backend/train_model/train_avocado.py   (iou, non_max_suppression)     *)
(*                                                                         *)
(* Numbers.  Python floats are modelled exactly, as fixed-point integers:  *)
(*   detector box coordinates   in units of 1/CoordDen  (raw tensors) and  *)
(*                              1/BoxDen (parsed candidates),              *)
(*   detection scores           in units of 1/ScoreDen,                    *)
(*   classifier outputs         in units of 1/ProbDen,                     *)
(*   probabilities, confidences as a numerator over a denominator.         *)
(* Floating-point rounding error is not modelled.                          *)
(***************************************************************************)
EXTENDS Integers, Sequences, FiniteSets, TLC

VARIABLES
    \* module-level model objects, set at import: TRUE = loaded, FALSE = None
    detector_model,      \* ripeness_routes.detector_model
    ripeness_model,      \* ripeness_routes.ripeness_model
    leaves_model,        \* leaves_routes.model
    fruit_model,         \* fruitdisease_routes.model
    \* one /predict request in flight
    pc,                  \* position of the handler
    endpoint,            \* which blueprint's predict() handles the request
    request,             \* the HTTP request: files, form, data and the payload sent
    image,               \* decoded image size <<W, H>>; <<0, 0>> before decoding
    detections,          \* stage 1 result (ripeness: dicts; leaves/fruit: boxes)
    detPath,             \* which return path of the detector produced detections
    detLocals,           \* detect_avocados_with_model's all_scores and dynamic_thresh
    classified,          \* stage 2 result, one entry per classified region
    clfPaths,            \* return path of the classifier for each region
    clfRaw,              \* what the classifier returned for each region; << >> if nothing
    failedAt,            \* the step that ended the request with an error, or None
    response,            \* the HTTP response; status 0 while there is none
    \* one call of train_avocado.non_max_suppression
    nms_boxes, nms_scores, nms_thresh, nms_order, nms_kept, nms_pc,
    nms_ctx,             \* the call: who made it, which call it is, the boxes of
                         \* the call before it, and the units its boxes are in
    \* one POST /ripeness/save handled by HistoryController
    hist_pc,             \* position of save_ripeness_analysis
    hist_data,           \* request.get_json()
    hist_env,            \* whether Cloudinary and MongoDB answer
    image_urls,          \* save_ripeness_analysis' image_urls
    hist_trace,          \* the step of process_and_upload_images that raised
    history_db,          \* the saved History documents
    hist_response,       \* the HTTP response; status 0 while there is none
    cloudinary,          \* public ids of the images held in Cloudinary
    \* one call of a single function
    fn_pc,               \* position in the call
    fn_name,             \* the function called
    fn_args,             \* its arguments
    fn_ret,              \* what it returned
    \* concurrent /predict requests
    workers              \* the handler of each worker thread and its locals

vars == << detector_model, ripeness_model, leaves_model, fruit_model,
           pc, endpoint, request, image, detections, detPath, detLocals,
           classified, clfPaths, clfRaw, failedAt, response,
           nms_boxes, nms_scores, nms_thresh, nms_order, nms_kept, nms_pc,
           nms_ctx,
           hist_pc, hist_data, hist_env, image_urls, hist_trace, history_db,
           hist_response, cloudinary,
           fn_pc, fn_name, fn_args, fn_ret, workers >>

pipeVars == << pc, endpoint, request, image, detections, detPath, detLocals,
               classified, clfPaths, clfRaw, failedAt, response >>
modelVars == << detector_model, ripeness_model, leaves_model, fruit_model >>
nmsVars == << nms_boxes, nms_scores, nms_thresh, nms_order, nms_kept, nms_pc,
             nms_ctx >>
histVars == << hist_pc, hist_data, hist_env, image_urls, hist_trace, history_db,
               hist_response, cloudinary >>
fnVars == << fn_pc, fn_name, fn_args, fn_ret >>
concVars == << workers >>

None == "None"

-----------------------------------------------------------------------------
(* Bounds of the model                                                     *)

\* most rows in a detector output tensor
MaxRows == 2
\* most contours cv2.findContours reports
MaxContours == 2
\* most boxes handed to non_max_suppression
MaxBoxes == 3

-----------------------------------------------------------------------------
(* Units                                                                   *)

CoordDen == 4
BoxDen == 2 * CoordDen
ScoreDen == 100
ProbDen == 4
Million == 1000000

-----------------------------------------------------------------------------
(* Arithmetic helpers                                                      *)

Max(a, b) == IF a >= b THEN a ELSE b
Min(a, b) == IF a <= b THEN a ELSE b

\* Python int(n/d) for d > 0: truncation toward zero
Trunc(n, d) == IF n >= 0 THEN n \div d ELSE -((-n) \div d)

\* Python round(n/d, 6) for n >= 0, d > 0, in millionths (round half to even)
Round6(n, d) ==
    LET q == (n * Million) \div d
        r == (n * Million) % d
    IN  IF 2 * r > d THEN q + 1
        ELSE IF 2 * r < d THEN q
        ELSE IF q % 2 = 0 THEN q ELSE q + 1

RECURSIVE SeqSum(_)
SeqSum(s) == IF s = << >> THEN 0 ELSE Head(s) + SeqSum(Tail(s))

SeqMax(s) == CHOOSE m \in { s[k] : k \in 1..Len(s) } : \A k \in 1..Len(s) : s[k] <= m

SeqMin(s) == CHOOSE m \in { s[k] : k \in 1..Len(s) } : \A k \in 1..Len(s) : s[k] >= m

RECURSIVE Flatten(_)
Flatten(rows) == IF rows = << >> THEN << >> ELSE Head(rows) \o Flatten(Tail(rows))

\* sequences over S of length 0..n
SeqsUpTo(S, n) == UNION { [1..k -> S] : k \in 0..n }

RemoveAt(s, i) == SubSeq(s, 1, i - 1) \o SubSeq(s, i + 1, Len(s))

Indices(s) == [k \in 1..Len(s) |-> k]

\* the order in which a stable descending sort visits positions 1..Len(keys):
\* among equal keys the earlier position comes first
RECURSIVE DescOrderOf(_, _)
DescOrderOf(keys, rem) ==
    IF rem = << >> THEN << >>
    ELSE LET i == CHOOSE i \in 1..Len(rem) :
                    /\ \A j \in 1..Len(rem) : keys[rem[j]] <= keys[rem[i]]
                    /\ \A j \in 1..(i - 1) : keys[rem[j]] < keys[rem[i]]
         IN  << rem[i] >> \o DescOrderOf(keys, RemoveAt(rem, i))

\* list.sort(key=..., reverse=True) with keys[k] the key of s[k]: Python's sort
\* is stable, also with reverse=True
SortDescByKeys(s, keys) ==
    LET ord == DescOrderOf(keys, Indices(s))
    IN  [k \in 1..Len(s) |-> s[ord[k]]]

\* list.sort(key=...) with keys[k] the key of s[k]: stable ascending
SortAscByKeys(s, keys) ==
    LET ord == DescOrderOf([k \in 1..Len(s) |-> -keys[k]], Indices(s))
    IN  [k \in 1..Len(s) |-> s[ord[k]]]

-----------------------------------------------------------------------------
(* ripeness_routes.py: program constants                                   *)

CLASS_NAMES == << "overripe", "ripe", "underripe" >>

\* DETECTION_THRESHOLD = 0.25, in units of 1/ScoreDen
DETECTION_THRESHOLD == 25
\* NMS_IOU_THRESHOLD = 0.45, in hundredths
NMS_IOU_THRESHOLD == 45

-----------------------------------------------------------------------------
(* ripeness_routes.py: format parsers                                      *)
(* A detector output is [isList, ndim, ncols, rows, scores]:               *)
(*   isList  a list of two or more tensors: rows = boxes tensor (1,N,4),   *)
(*           scores = scores tensor (1,N)                                  *)
(*   else    one array of ndim dimensions whose rows have ncols values;    *)
(*           ndim = 3 is shape (1,N,ncols)                                 *)
(* Coordinates are in units of 1/CoordDen, scores in units of 1/ScoreDen.  *)

\* _is_norm(arr) on a non-empty array: all values in [0, 1]
_is_norm(vals) == SeqMin(vals) >= 0 /\ SeqMax(vals) <= CoordDen

First4(row) == SubSeq(row, 1, 4)

\* a corner box [x1,y1,x2,y2] of the tensor, in units of 1/BoxDen
InBoxUnits(b) == << 2 * b[1], 2 * b[2], 2 * b[3], 2 * b[4] >>

\* _center_to_corner(cx, cy, w, h), result in units of 1/BoxDen
_center_to_corner(b) ==
    << 2 * b[1] - b[3], 2 * b[2] - b[4], 2 * b[1] + b[3], 2 * b[2] + b[4] >>

Candidate(box, score, norm, tf_yx) ==
    [box |-> box, score |-> score, norm |-> norm, tf_yx |-> tf_yx]

\* the parser's result: a candidate list, or an exception it lets escape
\* (numpy's min() of an empty array raises ValueError inside _is_norm)
Parsed(cands) == [raised |-> FALSE, cands |-> cands]
ParseRaised == [raised |-> TRUE, cands |-> << >>]

\* branch A/B: list of tensors [boxes, scores, ...]
ParseAB(raw) ==
    IF raw.rows = << >> THEN ParseRaised
    ELSE LET norm == _is_norm(Flatten(raw.rows))
             n    == Min(Len(raw.rows), Len(raw.scores))
         IN  Parsed([k \in 1..n |->
                 Candidate(InBoxUnits(First4(raw.rows[k])), raw.scores[k], norm, TRUE)])

\* the vote taken over every row, not over the sample
IsCorner_WholeBatch(preds) ==
    LET corner_votes == Cardinality({k \in 1..Len(preds) :
                            preds[k][3] > preds[k][1] /\ preds[k][4] > preds[k][2]})
    IN  corner_votes * 100 >= Len(preds) * 55

\* is_corner = corner_votes >= len(sample) * 0.55 over the first min(30, N) rows
IsCorner(preds) ==
    LET sample == SubSeq(preds, 1, Min(30, Len(preds)))
        corner_votes == Cardinality({k \in 1..Len(sample) :
                            sample[k][3] > sample[k][1] /\ sample[k][4] > sample[k][2]})
    IN  corner_votes * 100 >= Len(sample) * 55

\* branch C: single (1, N, 5+)
ParseC(raw) ==
    IF raw.rows = << >> THEN ParseRaised
    ELSE LET preds == raw.rows
             norm  == _is_norm(Flatten([k \in 1..Len(preds) |-> First4(preds[k])]))
             is_corner == IsCorner(preds)
         IN  Parsed([k \in 1..Len(preds) |->
                 Candidate(IF is_corner THEN InBoxUnits(First4(preds[k]))
                                        ELSE _center_to_corner(First4(preds[k])),
                           preds[k][5], norm, FALSE)])

\* branch D: single (1, N, 4), boxes only, score 1.0
ParseD(raw) ==
    IF raw.rows = << >> THEN ParseRaised
    ELSE LET norm == _is_norm(Flatten(raw.rows))
         IN  Parsed([k \in 1..Len(raw.rows) |->
                 Candidate(InBoxUnits(raw.rows[k]), ScoreDen, norm, FALSE)])

\* branches E and F: 5 or 4 values in all
ParseFlat(raw) ==
    LET flat == Flatten(raw.rows)
    IN  IF Len(flat) = 5
        THEN Parsed(<< Candidate(InBoxUnits(First4(flat)), flat[5],
                                 _is_norm(First4(flat)), FALSE) >>)
        ELSE IF Len(flat) = 4
        THEN Parsed(<< Candidate(InBoxUnits(flat), ScoreDen, _is_norm(flat), FALSE) >>)
        ELSE Parsed(<< >>)

_parse_candidates(raw) ==
    IF raw.isList THEN ParseAB(raw)
    ELSE IF raw.ndim = 3 /\ raw.ncols >= 5 THEN ParseC(raw)
    ELSE IF raw.ndim = 3 /\ raw.ncols = 4 THEN ParseD(raw)
    ELSE ParseFlat(raw)

-----------------------------------------------------------------------------
(* ripeness_routes.py: stage 1, the avocado detector                       *)

\* the fallback without its box: an empty list is returned
_full_image_fallback_Empty(img_w, img_h) == << >>

_full_image_fallback(img_w, img_h) ==
    << [id |-> 1, bbox |-> << 0, 0, img_w, img_h >>,
        bbox_normalized |-> << 0, 0, Million, Million >>,
        detection_confidence |-> 0, is_fallback |-> TRUE] >>

Scores(cands) == [k \in 1..Len(cands) |-> cands[k].score]

\* dynamic_thresh = min(DETECTION_THRESHOLD, max(all_scores) * 0.40),
\* in units of 1/(10 * ScoreDen)
DynamicThresh(cands) == Min(10 * DETECTION_THRESHOLD, 4 * SeqMax(Scores(cands)))

\* c['score'] < dynamic_thresh
BelowThresh(score, thresh) == 10 * score < thresh

\* the pixel box [x, y, w, h] of a candidate, before the size filter
PixelBox(c, img_w, img_h) ==
    LET b  == IF c.tf_yx THEN << c.box[2], c.box[1], c.box[4], c.box[3] >> ELSE c.box
        sx == IF c.norm THEN img_w ELSE 1
        sy == IF c.norm THEN img_h ELSE 1
    IN  << Trunc(b[1] * sx, BoxDen), Trunc(b[2] * sy, BoxDen),
           Trunc((b[3] - b[1]) * sx, BoxDen), Trunc((b[4] - b[2]) * sy, BoxDen) >>

\* if w < 3 or h < 3: continue
TooSmall(px) == px[3] < 3 \/ px[4] < 3

\* the loop over candidates: cv_boxes and kept_scores, as one list of pairs
RECURSIVE ThresholdAndSize(_, _, _, _)
ThresholdAndSize(cands, thresh, img_w, img_h) ==
    IF cands = << >> THEN << >>
    ELSE LET c    == Head(cands)
             px   == PixelBox(c, img_w, img_h)
             rest == ThresholdAndSize(Tail(cands), thresh, img_w, img_h)
         IN  IF BelowThresh(c.score, thresh) \/ TooSmall(px) THEN rest
             ELSE << [box |-> << px[1], px[2], Max(1, px[3]), Max(1, px[4]) >>,
                      score |-> c.score] >> \o rest

\* intersection and union area of two [x, y, w, h] boxes
RectInter(a, b) ==
    Max(0, Min(a[1] + a[3], b[1] + b[3]) - Max(a[1], b[1]))
  * Max(0, Min(a[2] + a[4], b[2] + b[4]) - Max(a[2], b[2]))
RectUnion(a, b) == a[3] * a[4] + b[3] * b[4] - RectInter(a, b)

\* OpenCV's test for suppressing b given a kept box a: overlap > nms_threshold
Overlaps(a, b, nms_threshold) == 100 * RectInter(a, b) > nms_threshold * RectUnion(a, b)

RECURSIVE NMSGreedy(_, _, _, _)
NMSGreedy(order, keep, boxes, nms_threshold) ==
    IF order = << >> THEN keep
    ELSE LET i == Head(order)
         IN  IF \E k \in 1..Len(keep) : Overlaps(boxes[keep[k]], boxes[i], nms_threshold)
             THEN NMSGreedy(Tail(order), keep, boxes, nms_threshold)
             ELSE NMSGreedy(Tail(order), Append(keep, i), boxes, nms_threshold)

\* cv2.dnn.NMSBoxes(boxes, scores, score_threshold, nms_threshold): indices of
\* the boxes kept, best score first. Only scores strictly above score_threshold
\* take part; they are visited in stable descending score order.
NMSBoxes(pairs, score_threshold, nms_threshold) ==
    LET above == SelectSeq(Indices(pairs),
                           LAMBDA i : 10 * pairs[i].score > score_threshold)
        order == SortDescByKeys(above, [k \in 1..Len(above) |-> pairs[above[k]].score])
    IN  NMSGreedy(order, << >>, [k \in 1..Len(pairs) |-> pairs[k].box], nms_threshold)

\* the box of cv_boxes is reported as it is
ClampBox_Unclamped(b, img_w, img_h) == b

\* x = max(0, min(x, img_w - 1)); w = max(1, min(w, img_w - x))  (and y, h)
ClampBox(b, img_w, img_h) ==
    LET x == Max(0, Min(b[1], img_w - 1))
        y == Max(0, Min(b[2], img_h - 1))
    IN  << x, y, Max(1, Min(b[3], img_w - x)), Max(1, Min(b[4], img_h - y)) >>

Area(bbox) == bbox[3] * bbox[4]

\* y and h divided by the width as well
NormalizeRounded_ByWidth(b, img_w, img_h) ==
    << Round6(b[1], img_w), Round6(b[2], img_w), Round6(b[3], img_w), Round6(b[4], img_w) >>

\* round(v/img_w, 6) for each of x, y, w, h, in millionths
NormalizeRounded(b, img_w, img_h) ==
    << Round6(b[1], img_w), Round6(b[2], img_h), Round6(b[3], img_w), Round6(b[4], img_h) >>

\* ids 1..N in list order: for i, d in enumerate(detections, 1): d['id'] = i
Renumber(dets) == [k \in 1..Len(dets) |-> [dets[k] EXCEPT !.id = k]]

\* the ids are reassigned but the list is left in the order NMSBoxes gave
SortLargestFirst_Unsorted(dets) == Renumber(dets)

\* detections.sort(key=area, reverse=True), then the ids are reassigned
SortLargestFirst(dets) ==
    Renumber(SortDescByKeys(dets, [k \in 1..Len(dets) |-> Area(dets[k].bbox)]))

\* the result dicts built from the NMS indices
BuildDetections(indices, pairs, img_w, img_h) ==
    [k \in 1..Len(indices) |->
        LET bbox == ClampBox(pairs[indices[k]].box, img_w, img_h)
        IN  [id |-> k, bbox |-> bbox,
             bbox_normalized |-> NormalizeRounded(bbox, img_w, img_h),
             detection_confidence |-> pairs[indices[k]].score,
             is_fallback |-> FALSE]]

\* the locals all_scores and dynamic_thresh of detect_avocados_with_model;
\* NoLocals before they are assigned
NoLocals == [all_scores |-> << >>, dynamic_thresh |-> 0]

DetectLocals(raw) ==
    LET parsed == _parse_candidates(raw)
    IN  IF parsed.raised \/ parsed.cands = << >> THEN NoLocals
        ELSE [all_scores |-> Scores(parsed.cands),
              dynamic_thresh |-> DynamicThresh(parsed.cands)]

DetectResult(dets, path) == [raised |-> FALSE, dets |-> dets, path |-> path]
DetectRaised == [raised |-> TRUE, dets |-> << >>, path |-> "raised"]

\* detect_avocados_with_model past the detector_model is None test, given the
\* output raw of detector_model.predict
DetectFromOutput(raw, img_w, img_h) ==
    LET parsed == _parse_candidates(raw)
    IN  IF parsed.raised THEN DetectRaised
        ELSE IF parsed.cands = << >>
        THEN DetectResult(_full_image_fallback(img_w, img_h), "no_candidates")
        ELSE LET thresh  == DynamicThresh(parsed.cands)
                 pairs   == ThresholdAndSize(parsed.cands, thresh, img_w, img_h)
                 indices == NMSBoxes(pairs, thresh, NMS_IOU_THRESHOLD)
             IN  IF pairs = << >>
                 THEN DetectResult(_full_image_fallback(img_w, img_h), "all_filtered")
                 ELSE IF indices = << >>
                 THEN DetectResult(_full_image_fallback(img_w, img_h), "nms_empty")
                 ELSE DetectResult(
                          SortLargestFirst(BuildDetections(indices, pairs, img_w, img_h)),
                          "detected")

-----------------------------------------------------------------------------
(* Probabilities                                                           *)
(* A float is a pair <<n, d>> standing for n/d; d = 0 is NaN (numpy's 0/0). *)
(* A probability map gives every key the same denominator.                 *)

IsNaN(a) == a[2] = 0

\* Python's a == b on floats: NaN equals nothing
FloatEq(a, b) == ~IsNaN(a) /\ ~IsNaN(b) /\ a[1] * b[2] = b[1] * a[2]

\* a >= b for floats with positive denominators
FloatGeq(a, b) == a[1] * b[2] >= b[1] * a[2]

\* np.argmax(v): the first position of the largest value; position 1 if the
\* vector is all NaN
ArgMax(v) == CHOOSE i \in 1..Len(v) :
                /\ \A j \in 1..Len(v) : v[j] <= v[i]
                /\ \A j \in 1..(i - 1) : v[j] < v[i]

\* round(1000 * exp(-k / ProbDen)) for k = 0, 1, 2, ...
ExpTable == << 1000, 779, 607, 472, 368, 287, 223, 174, 135, 105, 82, 64, 50,
               39, 30, 24, 18 >>
ExpNeg(k) == IF k + 1 <= Len(ExpTable) THEN ExpTable[k + 1] ELSE 0

\* e = np.exp(raw - raw.max()); probs = e / e.sum()
Softmax(raw) ==
    LET e == [i \in 1..Len(raw) |-> ExpNeg(SeqMax(raw) - raw[i])]
    IN  [i \in 1..Len(raw) |-> << e[i], SeqSum(e) >>]

\* probs = raw / raw.sum()
DivideBySum(raw) == [i \in 1..Len(raw) |-> << raw[i], SeqSum(raw) >>]

\* the raw vector as floats, unchanged
AsFloats(raw) == [i \in 1..Len(raw) |-> << raw[i], ProbDen >>]

-----------------------------------------------------------------------------
(* ripeness_routes.py: stage 2, the ripeness classifier                    *)
(* The classifier's behaviour on one crop is an input: predict raises, or  *)
(* returns a vector (in units of 1/ProbDen).                               *)

Classification(cls, confidence, all_probs) ==
    [class |-> cls, confidence |-> confidence, all_probabilities |-> all_probs]

ClassifyResult(clf, path) == [raised |-> FALSE, clf |-> clf, path |-> path]
ClassifyRaised == [raised |-> TRUE, clf |-> None, path |-> "raised"]

\* the except branch of classify_region
RipenessExceptResult ==
    ClassifyResult(
        Classification("ripe", << 1, 2 >>,
                       [c \in {CLASS_NAMES[i] : i \in 1..Len(CLASS_NAMES)} |->
                            << 1, Len(CLASS_NAMES) >>]),
        "exception")

\* raw.max() > 1.0 or raw.min() < 0.0
OutsideUnitRange(raw) == SeqMax(raw) > ProbDen \/ SeqMin(raw) < 0

\* the branch of classify_region with ripeness_model loaded
RipenessWithModel(out) ==
    IF out.raises THEN RipenessExceptResult
    ELSE LET raw   == out.raw
             probs == IF OutsideUnitRange(raw) THEN Softmax(raw) ELSE DivideBySum(raw)
             nums  == [i \in 1..Len(probs) |-> IF IsNaN(probs[i]) THEN 0 ELSE probs[i][1]]
             idx   == ArgMax(nums)
         IN  \* CLASS_NAMES[idx] or probs[i] out of range: IndexError, caught
             IF idx > Len(CLASS_NAMES) \/ Len(probs) < Len(CLASS_NAMES)
             THEN RipenessExceptResult
             ELSE ClassifyResult(
                      Classification(CLASS_NAMES[idx], probs[idx],
                          [c \in {CLASS_NAMES[i] : i \in 1..Len(CLASS_NAMES)} |->
                              probs[CHOOSE i \in 1..Len(CLASS_NAMES) : CLASS_NAMES[i] = c]]),
                      "model")

\* the branch of classify_region with ripeness_model None; rnd holds the draws
\* random.choice(CLASS_NAMES), random.uniform(0.7, 0.95), [random.random() ...]
RipenessWithoutModel(rnd) ==
    IF SeqSum(rnd.base) = 0 THEN RipenessExceptResult   \* base[i]/total: ZeroDivisionError
    ELSE ClassifyResult(
             Classification(rnd.choice, rnd.uniform,
                 [c \in {CLASS_NAMES[i] : i \in 1..Len(CLASS_NAMES)} |->
                     << rnd.base[CHOOSE i \in 1..Len(CLASS_NAMES) : CLASS_NAMES[i] = c],
                        SeqSum(rnd.base) >>]),
             "no_model")

classify_region(model_loaded, out, rnd) ==
    IF model_loaded THEN RipenessWithModel(out) ELSE RipenessWithoutModel(rnd)

determine_texture(cls) ==
    CASE cls = "underripe" -> "Very Firm"
      [] cls = "ripe"      -> "Slightly Soft"
      [] cls = "overripe"  -> "Very Soft"
      [] OTHER             -> "Unknown"

determine_days_to_ripe(cls) ==
    CASE cls = "underripe" -> "4-7 days"
      [] cls = "ripe"      -> "Ready now"
      [] cls = "overripe"  -> "Past ripe"
      [] OTHER             -> "Unknown"

get_recommendation(cls) ==
    CASE cls = "underripe" -> "Leave at room temperature. Place in a paper bag with a banana to speed ripening."
      [] cls = "ripe"      -> "Perfect for eating! Enjoy within 1-2 days or refrigerate to extend freshness."
      [] cls = "overripe"  -> "Best for guacamole, smoothies, or baking. Still nutritious despite soft texture."
      [] OTHER             -> "Monitor the fruit's condition"

\* CLASS_NAMES.index(cls), 0-based
ClassIndex(cls) == (CHOOSE i \in 1..Len(CLASS_NAMES) : CLASS_NAMES[i] = cls) - 1

\* one entry of the list classified
RipenessEntry(det, clf) ==
    [id |-> det.id, class |-> clf.class, confidence |-> clf.confidence,
     detection_confidence |-> det.detection_confidence,
     bbox |-> det.bbox_normalized, bbox_absolute |-> det.bbox,
     texture |-> determine_texture(clf.class),
     days_to_ripe |-> determine_days_to_ripe(clf.class),
     recommendation |-> get_recommendation(clf.class),
     all_probabilities |-> clf.all_probabilities,
     is_fallback |-> det.is_fallback]

\* jsonify(...) returned without its status code: Flask answers 200
ErrorResponse_NoStatus(status, msg) ==
    [status |-> 200, body |-> [success |-> FALSE, error |-> msg]]

ErrorResponse(status, msg) ==
    [status |-> status, body |-> [success |-> FALSE, error |-> msg]]

\* classified.sort(key=id); primary = classified[0]; the 200 response
RipenessResponse(entries, img) ==
    LET sorted  == SortAscByKeys(entries, [k \in 1..Len(entries) |-> entries[k].id])
        primary == sorted[1]
    IN  [status |-> 200,
         body |-> [success |-> TRUE, count |-> Len(sorted),
                   image_size |-> [width |-> img[1], height |-> img[2]],
                   prediction |-> [type |-> "FRUIT", ripeness |-> primary.class,
                                   ripeness_level |-> ClassIndex(primary.class),
                                   texture |-> primary.texture,
                                   confidence |-> primary.confidence,
                                   days_to_ripe |-> primary.days_to_ripe,
                                   recommendation |-> primary.recommendation,
                                   bbox |-> primary.bbox,
                                   is_fallback |-> primary.is_fallback],
                   all_probabilities |-> primary.all_probabilities,
                   detections |-> sorted]]

-----------------------------------------------------------------------------
(* leaves_routes.py and fruitdisease_routes.py                             *)
(* The two modules are copies of each other but for the colour ranges of   *)
(* the mask and the aspect-ratio limits. What cv2.findContours reports is  *)
(* an input: a list of contours [area, rect], rect = cv2.boundingRect.     *)

CLASSES == << "Anthracnose", "Healthy", "Nutrient Deficient", "Pest Infested" >>

\* 0.3 < aspect_ratio < 3.5 (leaves), 0.4 < aspect_ratio < 2.5 (fruit)
AspectOk(ep, w, h) ==
    IF ep = "leaves" THEN 10 * w > 3 * h /\ 10 * w < 35 * h
                     ELSE 10 * w > 4 * h /\ 10 * w < 25 * h

\* min_area < area < max_area: more than 2% and less than 80% of the image
AreaOk(area, original_w, original_h) ==
    /\ 100 * area > 2 * original_w * original_h
    /\ 10 * area < 8 * original_w * original_h

\* margin = int(min(original_w, original_h) * 0.05)
FallbackBox(original_w, original_h) ==
    LET margin == (5 * Min(original_w, original_h)) \div 100
    IN  << margin, margin, original_w - 2 * margin, original_h - 2 * margin >>

\* detect_leaves_in_image / detect_fruits_in_image
DetectByColour(ep, contours, original_w, original_h) ==
    LET valid  == SelectSeq(contours,
                     LAMBDA c : /\ AreaOk(c.area, original_w, original_h)
                                /\ AspectOk(ep, c.rect[3], c.rect[4]))
        boxes  == [k \in 1..Len(valid) |-> valid[k].rect]
        sorted == SortDescByKeys(boxes, [k \in 1..Len(boxes) |-> Area(boxes[k])])
        top    == SubSeq(sorted, 1, Min(5, Len(sorted)))
    IN  IF top = << >>
        THEN [boxes |-> << FallbackBox(original_w, original_h) >>, path |-> "fallback"]
        ELSE [boxes |-> top, path |-> "detected"]

\* classify_leaf_region / classify_fruit_region: no try/except, so an
\* exception of predict or an IndexError escapes to predict()'s handler
ClassifyByModel(out) ==
    IF out.raises THEN ClassifyRaised
    ELSE LET predictions   == out.raw
             predicted_idx == ArgMax(predictions)
         IN  IF predicted_idx > Len(CLASSES) \/ Len(predictions) < Len(CLASSES)
             THEN ClassifyRaised
             ELSE ClassifyResult(
                      [class |-> CLASSES[predicted_idx],
                       confidence |-> << predictions[predicted_idx], ProbDen >>,
                       class_id |-> predicted_idx - 1,
                       all_probabilities |->
                           [c \in {CLASSES[i] : i \in 1..Len(CLASSES)} |->
                               AsFloats(predictions)[
                                   CHOOSE i \in 1..Len(CLASSES) : CLASSES[i] = c]]],
                      "model")

\* one entry of the list detections; bbox is x/W, y/H, w/W, h/H, unrounded
ColourEntry(i, bbox, clf, original_w, original_h) ==
    [id |-> i, class |-> clf.class, confidence |-> clf.confidence,
     bbox |-> << << bbox[1], original_w >>, << bbox[2], original_h >>,
                 << bbox[3], original_w >>, << bbox[4], original_h >> >>,
     bbox_absolute |-> bbox,
     all_probabilities |-> clf.all_probabilities]

\* the key detections.sort(key=confidence, reverse=True) compares, as an
\* integer: confidences of these endpoints all have denominator ProbDen
ConfidenceKey(entry) == entry.confidence[1]

\* detections.sort(key=confidence, reverse=True)
SortByConfidence(entries) ==
    SortDescByKeys(entries, [k \in 1..Len(entries) |-> ConfidenceKey(entries[k])])

\* the primary taken as the largest box, the one with id 1
Primary_Largest(dets) == dets[CHOOSE k \in 1..Len(dets) : dets[k].id = 1]

\* primary = detections[0]  (taken only when detections is not empty)
Primary(dets) == dets[1]

\* the 200 response of leaves / fruitdisease predict()
ColourResponse(entries, img) ==
    LET dets    == SortByConfidence(entries)
        primary == Primary(dets)
    IN  [status |-> 200,
         body |-> [success |-> TRUE,
                   prediction |->
                       IF dets = << >>
                       THEN [class |-> "Unknown", confidence |-> << 0, 1 >>,
                             bbox |-> << << 1, 4 >>, << 1, 4 >>, << 1, 2 >>, << 1, 2 >> >>,
                             all_probabilities |-> << >>]
                       ELSE [class |-> primary.class, confidence |-> primary.confidence,
                             bbox |-> primary.bbox,
                             all_probabilities |-> primary.all_probabilities],
                   detections |-> dets,
                   count |-> Len(dets),
                   image_size |-> [width |-> img[1], height |-> img[2]]]]

-----------------------------------------------------------------------------
(* train_avocado.py: iou and non_max_suppression                           *)
(* Boxes are corner boxes [x1, y1, x2, y2] with integer coordinates; a     *)
(* threshold is a pair <<n, d>> standing for n/d, d > 0.                   *)

IouInter(b1, b2) ==
    Max(0, Min(b1[3], b2[3]) - Max(b1[1], b2[1]))
  * Max(0, Min(b1[4], b2[4]) - Max(b1[2], b2[2]))

\* the denominator written a1 + a1 - inter
IouUnion_FirstAreaTwice(b1, b2) ==
    2 * (b1[3] - b1[1]) * (b1[4] - b1[2]) - IouInter(b1, b2)

\* a1 + a2 - inter, the denominator of iou without its 1e-6
IouUnion(b1, b2) ==
    (b1[3] - b1[1]) * (b1[4] - b1[2]) + (b2[3] - b2[1]) * (b2[4] - b2[2])
    - IouInter(b1, b2)

\* the area 1.0 in the units the areas of this call's boxes come out in:
\* 1 for boxes written in whole units, DecodeDen^2 for decode_predictions
AreaUnits == nms_ctx.areaUnits

\* the value iou returns, inter / (union + 1e-6), as the pair <<inter, union>>.
\* Equal pairs are equal values; for boxes in whole units two values are
\* equal only when both are 0 or the pairs are equal, so 0 is always
\* written << 0, 1 >>.
iou(b1, b2) ==
    IF IouInter(b1, b2) = 0 THEN << 0, 1 >>
    ELSE << IouInter(b1, b2), IouUnion(b1, b2) >>

\* v = 1.0:  inter = union + 1e-6, that is Million * (inter - union) = AreaUnits
IouIsOne(v) ==
    /\ AreaUnits % Million = 0
    /\ v[1] - v[2] = AreaUnits \div Million

\* iou(b1, b2) = inter / (union + 1e-6) compared with th = n/d:
\*   iou < n/d   iff   Million * (inter * d - n * union) < n * AreaUnits
IouExcess(b1, b2, th) == IouInter(b1, b2) * th[2] - th[1] * IouUnion(b1, b2)

\* iou(b1, b2) < th, exactly
IouLess(b1, b2, th) == IouExcess(b1, b2, th) <= (th[1] * AreaUnits - 1) \div Million

\* iou(b1, b2) <= th and iou(b1, b2) = th, exactly
IouLeq(b1, b2, th) == IouExcess(b1, b2, th) <= (th[1] * AreaUnits) \div Million
IouEq(b1, b2, th) == IouLeq(b1, b2, th) /\ ~IouLess(b1, b2, th)

\* the test written ious <= iou_thresh
KeepsAfter_AtThreshold(boxes, i, j, iou_thresh) ==
    IouLeq(boxes[i], boxes[j], iou_thresh)

\* the test ious < iou_thresh that keeps box j in order after box i is selected
KeepsAfter(boxes, i, j, iou_thresh) == IouLess(boxes[i], boxes[j], iou_thresh)

\* permutations of 1..n as sequences
Perms(n) == { p \in [1..n -> 1..n] : \A a, b \in 1..n : p[a] = p[b] => a = b }

Reverse(s) == [k \in 1..Len(s) |-> s[Len(s) + 1 - k]]

\* scores.argsort(): a permutation putting the scores in ascending order.
\* numpy's default sort is not stable: the order of equal scores is whatever
\* the build's sort leaves, so every ascending permutation is possible.
ArgSorts(scores) ==
    { p \in Perms(Len(scores)) :
        \A k \in 1..(Len(scores) - 1) : scores[p[k]] <= scores[p[k + 1]] }

\* the argsort without its reversal: ascending scores
InitialOrders_Ascending(scores) == ArgSorts(scores)

\* order = scores.argsort()[::-1]
InitialOrders(scores) == { Reverse(p) : p \in ArgSorts(scores) }

\* order = rest: nothing is suppressed
Survivors_KeepsAll(boxes, i, rest, iou_thresh) == rest

\* the slice written order[2:]: the box after the selected one is never tested
Survivors_SkipsNext(boxes, i, rest, iou_thresh) ==
    SelectSeq(Tail(rest), LAMBDA j : KeepsAfter(boxes, i, j, iou_thresh))

\* order = rest[ious < iou_thresh]
Survivors(boxes, i, rest, iou_thresh) ==
    SelectSeq(rest, LAMBDA j : KeepsAfter(boxes, i, j, iou_thresh))

\* a first call of non_max_suppression made with boxes in whole units
DirectCall == [caller |-> "direct", calls |-> 1, boxes |-> << >>, areaUnits |-> 1]

\* non_max_suppression is entered: "if not boxes: return []", else the
\* arrays are built and order is the reversed argsort
NMSCall ==
    /\ nms_pc = "call"
    /\ IF nms_boxes = << >>
       THEN nms_pc' = "done" /\ nms_order' = << >>
       ELSE nms_pc' = "loop" /\ nms_order' \in InitialOrders(nms_scores)
    /\ UNCHANGED << nms_boxes, nms_scores, nms_thresh, nms_kept, nms_ctx,
                    modelVars, pipeVars, histVars, fnVars, concVars >>

\* one turn of "while len(order)"
NMSStep ==
    /\ nms_pc = "loop"
    /\ nms_order # << >>
    /\ LET i    == Head(nms_order)
           rest == Tail(nms_order)
       IN  /\ nms_kept' = Append(nms_kept, i)
           /\ IF rest = << >>
              THEN nms_pc' = "done" /\ UNCHANGED nms_order          \* break
              ELSE /\ nms_order' = Survivors(nms_boxes, i, rest, nms_thresh)
                   /\ UNCHANGED nms_pc
    /\ UNCHANGED << nms_boxes, nms_scores, nms_thresh, nms_ctx, modelVars, pipeVars, histVars, fnVars, concVars >>

\* the loop test fails: return kept
NMSReturn ==
    /\ nms_pc = "loop"
    /\ nms_order = << >>
    /\ nms_pc' = "done"
    /\ UNCHANGED << nms_boxes, nms_scores, nms_thresh, nms_order, nms_kept,
                    nms_ctx, modelVars, pipeVars, histVars, fnVars, concVars >>

\* the caller hands the kept boxes, with their scores and the same threshold,
\* to non_max_suppression once more
NMSAgain ==
    /\ nms_pc = "done"
    /\ nms_ctx.calls = 1
    /\ nms_ctx' = [nms_ctx EXCEPT !.calls = 2, !.boxes = nms_boxes]
    /\ nms_boxes' = [k \in 1..Len(nms_kept) |-> nms_boxes[nms_kept[k]]]
    /\ nms_scores' = [k \in 1..Len(nms_kept) |-> nms_scores[nms_kept[k]]]
    /\ nms_order' = << >>
    /\ nms_kept' = << >>
    /\ nms_pc' = "call"
    /\ UNCHANGED << nms_thresh, modelVars, pipeVars, histVars, fnVars, concVars >>

-----------------------------------------------------------------------------
(* train_avocado.py: decode_predictions                                    *)
(* Box coordinates are fractions of the image in units of 1/DecodeDen.     *)
(* A raw value p[k] of the grid is 0 or +/-Saturating, a magnitude at      *)
(* which np.exp has overflowed to inf or underflowed to 0.0.               *)

DecodeDen == 1000
Saturating == 1000
\* inf, as a number larger than every coordinate
Infinity == 1000000

GRID_W == 10
GRID_H == 10
\* cfg.ANCHORS, (w, h) in tenths of a grid cell
ANCHORS == << << 5, 7 >>, << 9, 12 >>, << 14, 18 >> >>
\* cfg.CONF_THRESH and cfg.NMS_THRESH, in hundredths
CONF_THRESH == 40
NMS_THRESH == 45

\* np.exp(p)
NpExp(p) == IF p < 0 THEN 0 ELSE IF p = 0 THEN 1 ELSE Infinity

\* 1 / (1 + np.exp(-p)), in halves: 1/(1 + inf) = 0, 1/2, 1/(1 + 0) = 1
Sigmoid(p) == IF p < 0 THEN 0 ELSE IF p = 0 THEN 1 ELSE 2

\* score = obj_conf * cls_conf, in quarters
CellScore(p) == Sigmoid(p[5]) * Sigmoid(p[6])

\* score < conf_thresh
BelowConf(score, conf_thresh) == 100 * score < 4 * conf_thresh

\* cx_cy_wh_to_xyxy on halved width and height
cx_cy_wh_to_xyxy(cx, cy, hw, hh) == << cx - hw, cy - hh, cx + hw, cy + hh >>

\* max(0., min(1., v))
Clamp01(v) == Max(0, Min(DecodeDen, v))

\* the box decode_predictions appends for grid[gj, gi, ai] = p
DecodeBox(gj, gi, ai, p) ==
    LET cx == ((2 * gi + Sigmoid(p[1])) * DecodeDen) \div (2 * GRID_W)
        cy == ((2 * gj + Sigmoid(p[2])) * DecodeDen) \div (2 * GRID_H)
        \* bw / 2 and bh / 2
        hw == ((ANCHORS[ai][1] * DecodeDen) \div (20 * GRID_W)) * NpExp(p[3])
        hh == ((ANCHORS[ai][2] * DecodeDen) \div (20 * GRID_H)) * NpExp(p[4])
        b  == cx_cy_wh_to_xyxy(cx, cy, hw, hh)
    IN  << Clamp01(b[1]), Clamp01(b[2]), Clamp01(b[3]), Clamp01(b[4]) >>

\* the list dets before NMS: the cells, in scan order, whose score passes
DecodeDets(grid, conf_thresh) ==
    LET pass == SelectSeq(grid, LAMBDA c : ~BelowConf(CellScore(c.p), conf_thresh))
    IN  [k \in 1..Len(pass) |->
            [box   |-> DecodeBox(pass[k].gj, pass[k].gi, pass[k].ai, pass[k].p),
             score |-> CellScore(pass[k].p)]]

-----------------------------------------------------------------------------
(* Inputs                                                                  *)

\* sizes <<W, H>> of the images clients send
ImageSizes == { << 4, 3 >>, << 20, 20 >>, << 40, 30 >> }

NoImage == << 0, 0 >>

\* the bytes a client sends: their length, and the size of the image they
\* decode to (NoImage when PIL cannot open them)
Payloads ==
    { [nbytes |-> 40, img |-> NoImage], [nbytes |-> 4000, img |-> NoImage],
      [nbytes |-> 40, img |-> << 20, 20 >>] }     \* a one-colour GIF
    \cup { [nbytes |-> 4000, img |-> s] : s \in ImageSizes }

NoPayload == [nbytes |-> 0, img |-> NoImage]

\* a request as Flask presents it: the 'image' entry of request.files (absent,
\* with an empty filename, or a named file), the 'image' entry of request.form
\* (absent, base64, a data: URI, or text base64 cannot decode) and whether
\* request.data is non-empty. Werkzeug leaves request.data empty when it has
\* parsed the body as a form.
Requests ==
    { r \in [files : {"absent", "noname", "ok"},
             form : {"absent", "b64", "datauri", "invalid"},
             data : BOOLEAN,
             payload : Payloads] :
        r.data => (r.files = "absent" /\ r.form = "absent") }

NoRequest == [files |-> "absent", form |-> "absent", data |-> FALSE, payload |-> NoPayload]

Endpoints == { "ripeness", "leaves", "fruitdisease" }

\* what loading the four model files at import can leave behind; the
\* combinations cover every outcome of each module
LoadOutcomes ==
    { [detector |-> TRUE,  ripeness |-> TRUE,  leaves |-> TRUE,  fruit |-> TRUE],
      [detector |-> TRUE,  ripeness |-> FALSE, leaves |-> FALSE, fruit |-> TRUE],
      [detector |-> FALSE, ripeness |-> TRUE,  leaves |-> TRUE,  fruit |-> FALSE],
      [detector |-> FALSE, ripeness |-> FALSE, leaves |-> FALSE, fruit |-> FALSE] }

\* rows [a, b, c, d] a detector emits, in units of 1/CoordDen
DetectorRows ==
    { << 0, 0, 2, 2 >>,          \* normalized corners (0,0)-(.5,.5)
      << 2, 1, 4, 4 >>,          \* normalized, not symmetric in x and y
      << 2, 2, 1, 1 >>,          \* centre form: cx, cy, w, h with w < cx
      << -8, 16, 60, 200 >> }    \* pixels, partly outside the image

\* detection scores, in units of 1/ScoreDen
DetectorScores == { -50, 0, 50, 90 }

RawOutput(isList, ndim, ncols, rows, scores) ==
    [isList |-> isList, ndim |-> ndim, ncols |-> ncols, rows |-> rows, scores |-> scores]

ScoredRows == { r \o << s >> : r \in DetectorRows, s \in DetectorScores }

\* outputs detector_model.predict can return
RawOutputs ==
    \* A/B: [boxes (1,N,4), scores (1,N)]
    { RawOutput(TRUE, 3, 4, [k \in 1..Len(rs) |-> First4(rs[k])],
                            [k \in 1..Len(rs) |-> rs[k][5]]) :
        rs \in SeqsUpTo(ScoredRows, MaxRows) }
    \* C: (1,N,5) and (1,1,6)
    \cup { RawOutput(FALSE, 3, 5, rs, << >>) : rs \in SeqsUpTo(ScoredRows, MaxRows) }
    \cup { RawOutput(FALSE, 3, 6, << r \o << 0 >> >>, << >>) : r \in ScoredRows }
    \* D: (1,N,4)
    \cup { RawOutput(FALSE, 3, 4, rs, << >>) : rs \in SeqsUpTo(DetectorRows, MaxRows) }
    \* E: (1,5) and F: (4,)
    \cup { RawOutput(FALSE, 2, 5, << r >>, << >>) : r \in ScoredRows }
    \cup { RawOutput(FALSE, 1, 4, << r >>, << >>) : r \in DetectorRows }
    \* none of the above: (3,)
    \cup { RawOutput(FALSE, 1, 3, << << 0, 0, 2 >> >>, << >>) }

\* a model's predict call: it raises, or returns raw
Raises == [raises |-> TRUE, raw |-> << >>]
Returns(raw) == [raises |-> FALSE, raw |-> raw]

DetectorBehaviours == { Raises } \cup { Returns(r) : r \in RawOutputs }

\* outputs of the ripeness classifier for one crop, in units of 1/ProbDen
RipenessBehaviours ==
    { Raises,
      Returns(<< 1, 2, 1 >>),      \* probabilities
      Returns(<< 2, 2, 2 >>),      \* in [0,1], sum 1.5
      Returns(<< 4, 2, 0 >>),      \* in [0,1], sum 1.5, not uniform
      Returns(<< 0, 0, 0 >>),      \* all zero
      Returns(<< 8, 0, -4 >>),     \* logits
      Returns(<< 1, 1, 1, 1 >>) }  \* one output more than there are classes

\* the draws of the fallback branch of classify_region
RandomDraws ==
    { [choice |-> c, uniform |-> << 7, 10 >>, base |-> b] :
        c \in { "overripe", "ripe" },
        b \in { << 1, 2, 1 >>, << 3, 0, 1 >>, << 0, 0, 0 >> } }

NoDraw == [choice |-> "ripe", uniform |-> << 7, 10 >>, base |-> << 1, 1, 1 >>]

\* outputs of the leaves / fruit-disease classifier for one crop
ColourBehaviours ==
    { Raises,
      Returns(<< 1, 2, 1, 0 >>),   \* probabilities
      Returns(<< 0, 1, 0, 3 >>),   \* probabilities
      Returns(<< 2, 2, 2, 2 >>),   \* in [0,1], sum 2
      Returns(<< 8, 0, -4, 0 >>),  \* logits
      Returns(<< 1, 2, 1 >>) }     \* one output fewer than there are classes

\* contours cv2.findContours can report in an image of at least 20 x 20
Contours ==
    { [area |-> 90, rect |-> << 0, 0, 10, 10 >>],
      [area |-> 30, rect |-> << 10, 10, 8, 5 >>],
      [area |-> 36, rect |-> << 0, 10, 12, 4 >>],    \* aspect ratio 3.0
      [area |-> 40, rect |-> << 0, 0, 20, 4 >>],     \* aspect ratio 5.0
      [area |-> 5,  rect |-> << 0, 0, 3, 3 >>],      \* under 2% of the image
      [area |-> 380, rect |-> << 0, 0, 20, 20 >>] }  \* over 80% of 20 x 20

\* what cv2.findContours returns: up to MaxContours different contours
ContourLists ==
    { s \in SeqsUpTo(Contours, MaxContours) :
        \A a, b \in 1..Len(s) : s[a] = s[b] => a = b }

\* cv2.boundingRect of a contour of the mask lies inside the mask
ContourListsIn(img) ==
    { s \in ContourLists :
        \A k \in 1..Len(s) : /\ s[k].rect[1] + s[k].rect[3] <= img[1]
                             /\ s[k].rect[2] + s[k].rect[4] <= img[2] }

-----------------------------------------------------------------------------
(* The request handlers                                                    *)

NoResponse == [status |-> 0, body |-> [success |-> FALSE, error |-> ""]]

\* the handler returns an error response
Fail(status, msg, step) ==
    /\ response' = ErrorResponse(status, msg)
    /\ failedAt' = step
    /\ pc' = "done"

\* _parse_image without its last raise: request.data returned untested
_parse_image_NoFinalRaise(req) ==
    IF req.files # "absent"
    THEN IF req.files = "noname"
         THEN [raised |-> TRUE, error |-> "Empty filename", bytes |-> NoPayload]
         ELSE [raised |-> FALSE, error |-> "", bytes |-> req.payload]
    ELSE IF req.form # "absent"
    THEN IF req.form = "invalid"
         THEN [raised |-> TRUE, error |-> "Incorrect padding", bytes |-> NoPayload]
         ELSE [raised |-> FALSE, error |-> "", bytes |-> req.payload]
    ELSE [raised |-> FALSE, error |-> "", bytes |-> req.payload]

\* _parse_image without its request.form branch
_parse_image_NoForm(req) ==
    IF req.files # "absent"
    THEN IF req.files = "noname"
         THEN [raised |-> TRUE, error |-> "Empty filename", bytes |-> NoPayload]
         ELSE [raised |-> FALSE, error |-> "", bytes |-> req.payload]
    ELSE IF req.data
    THEN [raised |-> FALSE, error |-> "", bytes |-> req.payload]
    ELSE [raised |-> TRUE, error |-> "No image provided", bytes |-> NoPayload]

\* ripeness_routes._parse_image: the bytes, or ValueError(error)
\* (binascii.Error, which b64decode raises, is a ValueError)
_parse_image(req) ==
    IF req.files # "absent"
    THEN IF req.files = "noname"
         THEN [raised |-> TRUE, error |-> "Empty filename", bytes |-> NoPayload]
         ELSE [raised |-> FALSE, error |-> "", bytes |-> req.payload]
    ELSE IF req.form # "absent"
    THEN IF req.form = "invalid"
         THEN [raised |-> TRUE, error |-> "Incorrect padding", bytes |-> NoPayload]
         ELSE [raised |-> FALSE, error |-> "", bytes |-> req.payload]
    ELSE IF req.data
    THEN [raised |-> FALSE, error |-> "", bytes |-> req.payload]
    ELSE [raised |-> TRUE, error |-> "No image provided", bytes |-> NoPayload]

\* a client posts to one of the three /predict routes
Receive ==
    /\ pc = "idle"
    /\ \E ep \in Endpoints, req \in Requests :
          /\ endpoint' = ep
          /\ request' = req
    /\ pc' = "parse"
    /\ UNCHANGED << image, detections, detPath, detLocals, classified, clfPaths, clfRaw, failedAt,
                    response, modelVars, nmsVars, histVars, fnVars, concVars >>

\* ripeness predict(): _parse_image and the length test
RipenessParse ==
    /\ pc = "parse" /\ endpoint = "ripeness"
    /\ LET parsed == _parse_image(request)
       IN  IF parsed.raised THEN Fail(400, parsed.error, "validation")
           ELSE IF parsed.bytes.nbytes < 100 THEN Fail(400, "Image too small", "validation")
           ELSE /\ pc' = "detect"
                /\ UNCHANGED << failedAt, response >>
    /\ UNCHANGED << endpoint, request, image, detections, detPath, detLocals, classified,
                    clfPaths, clfRaw, modelVars, nmsVars, histVars, fnVars, concVars >>

\* ripeness predict(): detect_avocados_with_model(image_bytes)
RipenessDetect ==
    /\ pc = "detect" /\ endpoint = "ripeness"
    /\ LET img == _parse_image(request).bytes.img
       IN  IF img = NoImage
           THEN \* Image.open raises
                /\ Fail(500, "cannot identify image file", "decode")
                /\ UNCHANGED << image, detections, detPath, detLocals >>
           ELSE IF ~detector_model
           THEN /\ detections' = _full_image_fallback(img[1], img[2])
                /\ detPath' = "no_detector"
                /\ image' = img
                /\ pc' = "classify"
                /\ UNCHANGED << detLocals, failedAt, response >>
           ELSE \E out \in DetectorBehaviours :
                   LET res == IF out.raises THEN DetectRaised
                              ELSE DetectFromOutput(out.raw, img[1], img[2])
                   IN  IF res.raised
                       THEN /\ Fail(500, "detector error", "detect")
                            /\ UNCHANGED << image, detections, detPath, detLocals >>
                       ELSE /\ detections' = res.dets
                            /\ detPath' = res.path
                            /\ detLocals' = DetectLocals(out.raw)
                            /\ image' = img
                            /\ pc' = "classify"
                            /\ UNCHANGED << failedAt, response >>
    /\ UNCHANGED << endpoint, request, classified, clfPaths, clfRaw, modelVars, nmsVars, histVars, fnVars, concVars >>

\* ripeness predict(): one turn of the loop "for det in detections"
RipenessClassify ==
    /\ pc = "classify" /\ endpoint = "ripeness"
    /\ Len(classified) < Len(detections)
    /\ \E out \in (IF ripeness_model THEN RipenessBehaviours ELSE { Raises }),
          rnd \in (IF ripeness_model THEN { NoDraw } ELSE RandomDraws) :
          LET det == detections[Len(classified) + 1]
              res == classify_region(ripeness_model, out, rnd)
          IN  /\ classified' = Append(classified, RipenessEntry(det, res.clf))
              /\ clfPaths' = Append(clfPaths, res.path)
              /\ clfRaw' = Append(clfRaw, out.raw)
    /\ UNCHANGED << pc, endpoint, request, image, detections, detPath, detLocals, failedAt,
                    response, modelVars, nmsVars, histVars, fnVars, concVars >>

\* ripeness predict(): sort, pick the primary, answer
RipenessRespond ==
    /\ pc = "classify" /\ endpoint = "ripeness"
    /\ Len(classified) = Len(detections)
    /\ response' = RipenessResponse(classified, image)
    /\ pc' = "done"
    /\ UNCHANGED << endpoint, request, image, detections, detPath, detLocals, classified,
                    clfPaths, clfRaw, failedAt, modelVars, nmsVars, histVars, fnVars, concVars >>

ModelOf(ep) == IF ep = "leaves" THEN leaves_model ELSE fruit_model

\* leaves / fruitdisease predict(): the model test, the files test, Image.open
ColourParse(ep) ==
    /\ pc = "parse" /\ endpoint = ep
    /\ IF ~ModelOf(ep)
       THEN Fail(500, "Model not loaded", "model_check") /\ UNCHANGED image
       ELSE IF request.files = "absent"
       THEN Fail(400, "No image provided", "validation") /\ UNCHANGED image
       ELSE IF request.payload.img = NoImage
       THEN Fail(500, "cannot identify image file", "decode") /\ UNCHANGED image
       ELSE /\ image' = request.payload.img
            /\ pc' = "detect"
            /\ UNCHANGED << failedAt, response >>
    /\ UNCHANGED << endpoint, request, detections, detPath, detLocals, classified, clfPaths, clfRaw,
                    modelVars, nmsVars, histVars, fnVars, concVars >>

\* leaves / fruitdisease predict(): detect_leaves_in_image / detect_fruits_in_image
ColourDetect(ep) ==
    /\ pc = "detect" /\ endpoint = ep
    /\ \E contours \in ContourListsIn(image) :
          LET res == DetectByColour(ep, contours, image[1], image[2])
          IN  /\ detections' = res.boxes
              /\ detPath' = res.path
    /\ pc' = "classify"
    /\ UNCHANGED << endpoint, request, image, detLocals, classified, clfPaths, clfRaw,
                    failedAt, response, modelVars, nmsVars, histVars, fnVars, concVars >>

\* leaves / fruitdisease predict(): one turn of "for i, bbox in enumerate(boxes)"
ColourClassify(ep) ==
    /\ pc = "classify" /\ endpoint = ep
    /\ Len(classified) < Len(detections)
    /\ \E out \in ColourBehaviours :
          LET i   == Len(classified) + 1
              res == ClassifyByModel(out)
          IN  IF res.raised
              THEN /\ Fail(500, "classifier error", "classify")
                   /\ UNCHANGED << classified, clfPaths, clfRaw >>
              ELSE /\ classified' = Append(classified,
                          ColourEntry(i, detections[i], res.clf, image[1], image[2]))
                   /\ clfPaths' = Append(clfPaths, res.path)
                   /\ clfRaw' = Append(clfRaw, out.raw)
                   /\ UNCHANGED << pc, failedAt, response >>
    /\ UNCHANGED << endpoint, request, image, detections, detPath, detLocals, modelVars, nmsVars, histVars, fnVars, concVars >>

\* leaves / fruitdisease predict(): sort by confidence, pick the primary, answer
ColourRespond(ep) ==
    /\ pc = "classify" /\ endpoint = ep
    /\ Len(classified) = Len(detections)
    /\ response' = ColourResponse(classified, image)
    /\ pc' = "done"
    /\ UNCHANGED << endpoint, request, image, detections, detPath, detLocals, classified,
                    clfPaths, clfRaw, failedAt, modelVars, nmsVars, histVars, fnVars, concVars >>

\* the response is sent; the handler's locals are gone
Finish ==
    /\ pc = "done"
    /\ pc' = "idle"
    /\ endpoint' = "ripeness"
    /\ request' = NoRequest
    /\ image' = NoImage
    /\ detections' = << >>
    /\ detPath' = None
    /\ detLocals' = NoLocals
    /\ classified' = << >>
    /\ clfPaths' = << >>
    /\ clfRaw' = << >>
    /\ failedAt' = None
    /\ response' = NoResponse
    /\ UNCHANGED << modelVars, nmsVars, histVars, fnVars, concVars >>

-----------------------------------------------------------------------------
(* Concurrent /predict requests: each worker thread runs one handler; the   *)
(* handlers meet only in the module-level variables                         *)

\* the module-level variables as a handler finds them
Models ==
    [ detector |-> detector_model, ripeness |-> ripeness_model,
      leaves |-> leaves_model, fruit |-> fruit_model ]

\* the requests of the concurrent clients: one decodable 20 x 20 image in the
\* file field or as base64 in the form field, or nothing
ConcRequests ==
    { r \in Requests :
        /\ r.payload = [nbytes |-> 4000, img |-> << 20, 20 >>]
        /\ ~r.data
        /\ << r.files, r.form >> \in
              { << "ok", "absent" >>, << "absent", "b64" >>, << "absent", "absent" >> } }

\* what the models and cv2.findContours answer to one request
ConcEnvs(ep, m) ==
    IF ep = "ripeness"
    THEN [ det : { Raises,
                   Returns(RawOutput(FALSE, 3, 5,
                                     << << 0, 0, 2, 2, 90 >>, << 2, 1, 4, 4, 50 >> >>,
                                     << >>)),
                   Returns(RawOutput(FALSE, 1, 4, << << -8, 16, 60, 200 >> >>, << >>)) },
           clf : IF m.ripeness
                 THEN { Raises, Returns(<< 1, 2, 1 >>), Returns(<< 8, 0, -4 >>) }
                 ELSE { Raises },
           rnd : IF m.ripeness THEN { NoDraw }
                 ELSE { d \in RandomDraws : d.base # << 0, 0, 0 >> },
           contours : { << >> } ]
    ELSE [ det : { Raises },
           clf : { Raises, Returns(<< 1, 2, 1, 0 >>), Returns(<< 8, 0, -4, 0 >>) },
           rnd : { NoDraw },
           contours : { << >>, << [area |-> 90, rect |-> << 0, 0, 10, 10 >>],
                                  [area |-> 30, rect |-> << 10, 10, 8, 5 >>] >> } ]

NoEnv == [ det |-> Raises, clf |-> Raises, rnd |-> NoDraw, contours |-> << >> ]

IdleWorker ==
    [ pc |-> "idle", endpoint |-> "ripeness", request |-> NoRequest, env |-> NoEnv,
      loaded |-> [ detector |-> FALSE, ripeness |-> FALSE, leaves |-> FALSE,
                   fruit |-> FALSE ],
      image |-> NoImage, detections |-> << >>, classified |-> << >>,
      response |-> NoResponse, overlapped |-> FALSE ]

Workers == { 1, 2 }

ConcIdle == workers = [ w \in Workers |-> IdleWorker ]

\* the handler returns an error response
Failed(rec, status, msg) ==
    [ rec EXCEPT !.pc = "done", !.response = ErrorResponse(status, msg) ]

\* one step of ripeness predict() for the request of rec, reading the
\* module-level variables m
RipenessStep(rec, m) ==
    CASE rec.pc = "parse" ->
            LET parsed == _parse_image(rec.request)
            IN  IF parsed.raised THEN Failed(rec, 400, parsed.error)
                ELSE IF parsed.bytes.nbytes < 100 THEN Failed(rec, 400, "Image too small")
                ELSE [ rec EXCEPT !.pc = "detect" ]
      [] rec.pc = "detect" ->
            LET img == _parse_image(rec.request).bytes.img
                res == IF ~m.detector
                       THEN DetectResult(_full_image_fallback(img[1], img[2]),
                                         "no_detector")
                       ELSE IF rec.env.det.raises THEN DetectRaised
                       ELSE DetectFromOutput(rec.env.det.raw, img[1], img[2])
            IN  IF img = NoImage THEN Failed(rec, 500, "cannot identify image file")
                ELSE IF res.raised THEN Failed(rec, 500, "detector error")
                ELSE [ rec EXCEPT !.pc = "classify", !.image = img,
                                  !.detections = res.dets ]
      [] rec.pc = "classify" /\ Len(rec.classified) < Len(rec.detections) ->
            LET det == rec.detections[Len(rec.classified) + 1]
                res == classify_region(m.ripeness,
                                       IF m.ripeness THEN rec.env.clf ELSE Raises,
                                       rec.env.rnd)
            IN  [ rec EXCEPT !.classified = Append(@, RipenessEntry(det, res.clf)) ]
      [] rec.pc = "classify" /\ Len(rec.classified) = Len(rec.detections) ->
            [ rec EXCEPT !.pc = "done",
                         !.response = RipenessResponse(rec.classified, rec.image) ]

\* one step of leaves / fruitdisease predict()
ColourStep(rec, m) ==
    LET model == IF rec.endpoint = "leaves" THEN m.leaves ELSE m.fruit
    IN  CASE rec.pc = "parse" ->
                IF ~model THEN Failed(rec, 500, "Model not loaded")
                ELSE IF rec.request.files = "absent"
                THEN Failed(rec, 400, "No image provided")
                ELSE IF rec.request.payload.img = NoImage
                THEN Failed(rec, 500, "cannot identify image file")
                ELSE [ rec EXCEPT !.pc = "detect", !.image = rec.request.payload.img ]
          [] rec.pc = "detect" ->
                [ rec EXCEPT !.pc = "classify",
                             !.detections =
                                 DetectByColour(rec.endpoint, rec.env.contours,
                                                rec.image[1], rec.image[2]).boxes ]
          [] rec.pc = "classify" /\ Len(rec.classified) < Len(rec.detections) ->
                LET i   == Len(rec.classified) + 1
                    \* model.predict on a model that is None: AttributeError
                    res == IF ~model THEN ClassifyRaised
                           ELSE ClassifyByModel(rec.env.clf)
                IN  IF res.raised THEN Failed(rec, 500, "classifier error")
                    ELSE [ rec EXCEPT !.classified =
                               Append(@, ColourEntry(i, rec.detections[i], res.clf,
                                                     rec.image[1], rec.image[2])) ]
          [] rec.pc = "classify" /\ Len(rec.classified) = Len(rec.detections) ->
                [ rec EXCEPT !.pc = "done",
                             !.response = ColourResponse(rec.classified, rec.image) ]

HandlerStep(rec, m) ==
    IF rec.endpoint = "ripeness" THEN RipenessStep(rec, m) ELSE ColourStep(rec, m)

\* a handler that gives up the detector once a request has failed
ModuleWrites_DropsDetector(before, after, m) ==
    IF after.pc = "done" /\ ~after.response.body.success
    THEN [ m EXCEPT !.detector = FALSE ]
    ELSE m

\* the module-level variables after a step of a handler: no handler has a
\* global statement, none assigns a module-level name
ModuleWrites(before, after, m) == m

\* the handler run to its response with no other request in the process
RECURSIVE RunAlone(_, _)
RunAlone(rec, m) == IF rec.pc = "done" THEN rec ELSE RunAlone(HandlerStep(rec, m), m)

\* a request reaches a worker thread
ConcReceive(w) ==
    /\ workers[w].pc = "idle"
    /\ \E ep \in Endpoints, req \in ConcRequests :
          \E env \in ConcEnvs(ep, Models) :
              workers' = [ workers EXCEPT ![w] =
                             [ @ EXCEPT !.pc = "parse", !.endpoint = ep,
                                        !.request = req, !.env = env,
                                        !.loaded = Models ] ]
    /\ UNCHANGED << modelVars, pipeVars, nmsVars, histVars, fnVars >>

\* the thread of worker w runs its handler up to the next point where it
\* reads a module-level variable
ConcStep(w) ==
    /\ workers[w].pc \notin { "idle", "done" }
    /\ LET before == workers[w]
           after  == HandlerStep(before, Models)
           busy   == \E v \in Workers \ { w } : workers[v].pc \notin { "idle", "done" }
           m      == ModuleWrites(before, after, Models)
       IN  /\ workers' = [ workers EXCEPT ![w] =
                             [ after EXCEPT !.overlapped = before.overlapped \/ busy ] ]
           /\ detector_model' = m.detector
           /\ ripeness_model' = m.ripeness
           /\ leaves_model' = m.leaves
           /\ fruit_model' = m.fruit
    /\ UNCHANGED << pipeVars, nmsVars, histVars, fnVars >>

-----------------------------------------------------------------------------
\* no single function is being called
NoRaw == RawOutput(FALSE, 0, 0, << >>, << >>)
NoCall == [ img |-> NoImage, box |-> << >>, raw |-> NoRaw, order |-> None ]
NoReturn ==
    [ norm |-> << >>, px |-> << >>, parsed |-> Parsed(<< >>), pixel |-> << >>,
      clamped |-> << >> ]

FnIdle ==
    /\ fn_pc = "off"
    /\ fn_name = None
    /\ fn_args = NoCall
    /\ fn_ret = NoReturn

-----------------------------------------------------------------------------
(* HistoryController.save_ripeness_analysis: one POST /ripeness/save of an  *)
(* authenticated user                                                       *)

\* JSON values of the request body: t is the JSON type ("absent" when the key
\* is missing), s the text of a string or the element type of a list, n a
\* number (a confidence in 1/100) or the length of a list
JAbsent == [t |-> "absent", s |-> "", n |-> 0]
JNull == [t |-> "null", s |-> "", n |-> 0]
JStr(x) == [t |-> "str", s |-> x, n |-> 0]
JNum(k) == [t |-> "num", s |-> "", n |-> k]
JList(of, len) == [t |-> "list", s |-> of, n |-> len]

\* Python truth value of what dict.get(key) returns
Truthy(v) ==
    CASE v.t = "absent" -> FALSE
      [] v.t = "null" -> FALSE
      [] v.t = "str" -> v.s # ""
      [] v.t = "num" -> v.n # 0
      [] v.t = "list" -> v.n > 0

\* dict.get(key, default): the default only replaces a missing key
Get(v, default) == IF v.t = "absent" THEN default ELSE v

RipenessValues == { JAbsent, JStr(""), JStr("ripe"), JStr("overripe"), JNum(1) }
ConfidenceValues == { JAbsent, JNull, JNum(90), JStr("high") }
BboxValues ==
    { JAbsent, JNull, JList("num", 4), JList("num", 3), JList("str", 4) }

\* data['prediction']: missing, {} or a dict
Predictions ==
    [ t : { "absent", "empty" }, ripeness : { JAbsent },
      confidence : { JAbsent }, bbox : { JAbsent } ]
    \cup [ t : { "dict" }, ripeness : RipenessValues,
           confidence : ConfidenceValues, bbox : BboxValues ]

\* data['image_data']: missing, a number, "" or a base64 string with or
\* without a data URL prefix.  payload "png" decodes to a raster image, "svg"
\* to an image Cloudinary stores and PIL cannot open, "badpad" is base64 with
\* incorrect padding
ImageDatas ==
    [ t : { "absent", "num" }, prefix : { FALSE }, payload : { "" } ]
    \cup [ t : { "str" }, prefix : { FALSE }, payload : { "" } ]
    \cup [ t : { "str" }, prefix : BOOLEAN, payload : { "png", "svg", "badpad" } ]

ImageTruthy(d) ==
    CASE d.t = "absent" -> FALSE
      [] d.t = "num" -> TRUE
      [] d.t = "str" -> d.prefix \/ d.payload # ""

\* whether Cloudinary and MongoDB answer the calls of this request
HistEnvs == [ cloud_original : BOOLEAN, cloud_annotated : BOOLEAN, db : BOOLEAN ]

HistoryRequests == [ prediction : Predictions, image_data : ImageDatas ]

NoHistRequest ==
    [ prediction |-> [ t |-> "absent", ripeness |-> JAbsent,
                       confidence |-> JAbsent, bbox |-> JAbsent ],
      image_data |-> [ t |-> "absent", prefix |-> FALSE, payload |-> "" ] ]
NoHistEnv == [ cloud_original |-> TRUE, cloud_annotated |-> TRUE, db |-> TRUE ]

NoUrls ==
    [ original_image_url |-> None, annotated_image_url |-> None,
      original_public_id |-> None, annotated_public_id |-> None ]

NoHistResponse ==
    [ status |-> 0, body |-> [ success |-> FALSE, message |-> "", analysis |-> << >> ] ]

\* upload_to_cloudinary: the uploaded image's address, or an exception
upload_to_cloudinary(image_data, folder, filename_prefix, cloud_ok) ==
    LET raises ==
            \/ ~ImageTruthy(image_data)
            \/ folder = ""
            \/ filename_prefix = ""
            \/ image_data.t = "str" /\ image_data.payload = "badpad"
            \* CloudinaryHelper.upload_image answers success False
            \/ image_data.t # "str"
            \/ image_data.payload = ""
            \/ ~cloud_ok
    IN  IF raises
        THEN [ raised |-> TRUE, secure_url |-> None, public_id |-> None ]
        ELSE [ raised |-> FALSE,
               secure_url |-> "https://" \o folder \o "/" \o filename_prefix,
               public_id |-> folder \o "/" \o filename_prefix ]

\* one iteration of draw_bounding_boxes' loop raises
DrawRaises(detection) ==
    LET bbox == Get(detection.bbox, JList("num", 4))
        class_name == detection.ripeness
        confidence == Get(detection.confidence, JNum(0))
    IN  \/ bbox.t # "list"                     \* len(bbox)
        \/ bbox.n = 4 /\ bbox.s # "num"       \* int(bbox[0] * img_width)
        \/ class_name.t # "str"               \* class_name.lower()
        \/ confidence.t # "num"               \* f"{confidence:.2%}"

AnnotatedPng == [ t |-> "str", prefix |-> TRUE, payload |-> "png" ]

\* draw_bounding_boxes: the annotated image as a PNG data URL, or the
\* exception it logs and raises again
draw_bounding_boxes(image_data, dets) ==
    LET raises ==
            \/ ~ImageTruthy(image_data)
            \/ image_data.t # "str"            \* img.mode of a non image
            \/ image_data.payload # "png"      \* b64decode, Image.open
            \/ \E k \in 1..Len(dets) : DrawRaises(dets[k])
    IN  [ raised |-> raises, image |-> AnnotatedPng ]

\* a process_and_upload_images that uploads an annotated image whatever
\* draw_bounding_boxes did
process_and_upload_images_IgnoresDraw(image_data, dets, analysis_type, user_id, env) ==
    LET folder == "history/" \o analysis_type \o "/" \o user_id
        original_result ==
            upload_to_cloudinary(image_data, folder,
                                 analysis_type \o "_original_", env.cloud_original)
        annotated_image == draw_bounding_boxes(image_data, dets)
        annotated_result ==
            upload_to_cloudinary(annotated_image.image, folder,
                                 analysis_type \o "_annotated_", TRUE)
    IN  CASE ~ImageTruthy(image_data) \/ dets = << >> ->
                [ urls |-> NoUrls, raisedIn |-> "validate", uploaded |-> { } ]
          [] original_result.raised ->
                [ urls |-> NoUrls, raisedIn |-> "upload_original", uploaded |-> { } ]
          [] OTHER ->
                [ urls |-> [ original_image_url |-> original_result.secure_url,
                             annotated_image_url |-> annotated_result.secure_url,
                             original_public_id |-> original_result.public_id,
                             annotated_public_id |-> annotated_result.public_id ],
                  raisedIn |-> IF annotated_image.raised THEN "draw" ELSE None,
                  uploaded |-> { original_result.public_id, annotated_result.public_id } ]

\* process_and_upload_images: the four addresses, all None as soon as one
\* step raises; raisedIn names that step, uploaded holds the public ids of
\* the images Cloudinary took during the call (none is destroyed)
process_and_upload_images(image_data, dets, analysis_type, user_id, env) ==
    LET folder == "history/" \o analysis_type \o "/" \o user_id
        original_result ==
            upload_to_cloudinary(image_data, folder,
                                 analysis_type \o "_original_", env.cloud_original)
        annotated_image == draw_bounding_boxes(image_data, dets)
        annotated_result ==
            upload_to_cloudinary(annotated_image.image, folder,
                                 analysis_type \o "_annotated_", env.cloud_annotated)
    IN  CASE ~ImageTruthy(image_data) \/ dets = << >> ->
                [ urls |-> NoUrls, raisedIn |-> "validate", uploaded |-> { } ]
          [] original_result.raised ->
                [ urls |-> NoUrls, raisedIn |-> "upload_original", uploaded |-> { } ]
          [] annotated_image.raised ->
                [ urls |-> NoUrls, raisedIn |-> "draw",
                  uploaded |-> { original_result.public_id } ]
          [] annotated_result.raised ->
                [ urls |-> NoUrls, raisedIn |-> "upload_annotated",
                  uploaded |-> { original_result.public_id } ]
          [] OTHER ->
                [ urls |-> [ original_image_url |-> original_result.secure_url,
                             annotated_image_url |-> annotated_result.secure_url,
                             original_public_id |-> original_result.public_id,
                             annotated_public_id |-> annotated_result.public_id ],
                  raisedIn |-> None,
                  uploaded |-> { original_result.public_id, annotated_result.public_id } ]

\* History.create_ripeness_analysis
create_ripeness_analysis(data, urls) ==
    [ analysis_type |-> "ripeness",
      ripeness |-> data.prediction.ripeness,
      ripeness_confidence |-> data.prediction.confidence,
      ripeness_bbox |-> Get(data.prediction.bbox, JList("num", 0)),
      original_image_url |-> urls.original_image_url,
      annotated_image_url |-> urls.annotated_image_url,
      original_public_id |-> urls.original_public_id,
      annotated_public_id |-> urls.annotated_public_id ]

\* the field declarations of History: what save() validates
FieldsValidate(history) ==
    /\ history.ripeness.t \in { "absent", "null", "str" }              \* StringField
    /\ history.ripeness_confidence.t \in { "absent", "null", "num" }   \* FloatField
    /\ \/ history.ripeness_bbox.t \in { "absent", "null" }       \* ListField(FloatField())
       \/ history.ripeness_bbox.t = "list" /\ history.ripeness_bbox.s = "num"

\* History.save raises: a field does not validate, or MongoDB is unreachable
SaveRaises(history, env) == ~FieldsValidate(history) \/ ~env.db

\* History.to_dict_public
to_dict_public(history) ==
    [ analysis_type |-> history.analysis_type,
      original_image_url |-> history.original_image_url,
      annotated_image_url |-> history.annotated_image_url,
      ripeness |-> [ ripeness |-> history.ripeness,
                     confidence |-> history.ripeness_confidence,
                     bbox |-> history.ripeness_bbox ] ]

HistIdle ==
    /\ hist_pc = "off"
    /\ hist_data = NoHistRequest
    /\ hist_env = NoHistEnv
    /\ image_urls = NoUrls
    /\ hist_trace = "not_called"
    /\ history_db = << >>
    /\ hist_response = NoHistResponse
    /\ cloudinary = { }

\* the request arrives, and the outer services are as they are
HistReceive ==
    /\ hist_pc = "idle"
    /\ hist_data' \in HistoryRequests
    /\ hist_env' \in HistEnvs
    /\ hist_pc' = "validate"
    /\ UNCHANGED << image_urls, hist_trace, history_db, hist_response, cloudinary,
                    modelVars, pipeVars, nmsVars, fnVars, concVars >>

\* "Validate required fields"
HistValidate ==
    /\ hist_pc = "validate"
    /\ IF hist_data.prediction.t # "dict"
       THEN /\ hist_response' =
                  [ status |-> 400,
                    body |-> [ success |-> FALSE,
                               message |-> "Missing prediction data",
                               analysis |-> << >> ] ]
            /\ hist_pc' = "done"
       ELSE IF ~Truthy(hist_data.prediction.ripeness)
       THEN /\ hist_response' =
                  [ status |-> 400,
                    body |-> [ success |-> FALSE,
                               message |-> "Missing ripeness data",
                               analysis |-> << >> ] ]
            /\ hist_pc' = "done"
       ELSE /\ hist_pc' = "images"
            /\ UNCHANGED hist_response
    /\ UNCHANGED << hist_data, hist_env, image_urls, hist_trace, history_db,
                    cloudinary, modelVars, pipeVars, nmsVars, fnVars, concVars >>

\* "Process and upload images if image data is provided"
HistImages ==
    /\ hist_pc = "images"
    /\ IF ImageTruthy(hist_data.image_data)
       THEN LET detection ==
                    [ bbox |-> Get(hist_data.prediction.bbox, JList("num", 4)),
                      ripeness |-> hist_data.prediction.ripeness,
                      confidence |-> Get(hist_data.prediction.confidence, JNum(0)) ]
                r == process_and_upload_images(hist_data.image_data,
                                               << detection >>, "ripeness",
                                               "user", hist_env)
            IN  /\ image_urls' = r.urls
                /\ hist_trace' = r.raisedIn
                /\ cloudinary' = cloudinary \cup r.uploaded
       ELSE /\ image_urls' = NoUrls
            /\ hist_trace' = "not_called"
            /\ UNCHANGED cloudinary
    /\ hist_pc' = "save"
    /\ UNCHANGED << hist_data, hist_env, history_db, hist_response,
                    modelVars, pipeVars, nmsVars, fnVars, concVars >>

\* "Create history record", save it and answer
HistSave ==
    /\ hist_pc = "save"
    /\ LET history == create_ripeness_analysis(hist_data, image_urls)
       IN  IF SaveRaises(history, hist_env)
           THEN /\ hist_response' =
                      [ status |-> 500,
                        body |-> [ success |-> FALSE,
                                   message |-> "Server error",
                                   analysis |-> << >> ] ]
                /\ UNCHANGED history_db
           ELSE /\ history_db' = Append(history_db, history)
                /\ hist_response' =
                      [ status |-> 201,
                        body |-> [ success |-> TRUE,
                                   message |-> "Ripeness analysis saved successfully",
                                   analysis |-> << to_dict_public(history) >> ] ]
    /\ hist_pc' = "done"
    /\ UNCHANGED << hist_data, hist_env, image_urls, hist_trace, cloudinary,
                    modelVars, pipeVars, nmsVars, fnVars, concVars >>

InitHistory ==
    /\ detector_model = TRUE /\ ripeness_model = TRUE
    /\ leaves_model = TRUE /\ fruit_model = TRUE
    /\ pc = "idle"
    /\ endpoint = "ripeness"
    /\ request = NoRequest
    /\ image = NoImage
    /\ detections = << >>
    /\ detPath = None
    /\ detLocals = NoLocals
    /\ classified = << >>
    /\ clfPaths = << >>
    /\ clfRaw = << >>
    /\ failedAt = None
    /\ response = NoResponse
    /\ nms_boxes = << >> /\ nms_scores = << >> /\ nms_thresh = << 0, 1 >>
    /\ nms_order = << >> /\ nms_kept = << >> /\ nms_pc = "off"
    /\ nms_ctx = DirectCall
    /\ hist_pc = "idle"
    /\ hist_data = NoHistRequest
    /\ hist_env = NoHistEnv
    /\ image_urls = NoUrls
    /\ hist_trace = "not_called"
    /\ history_db = << >>
    /\ hist_response = NoHistResponse
    /\ cloudinary = { }
    /\ FnIdle
    /\ ConcIdle

NextHistory == HistReceive \/ HistValidate \/ HistImages \/ HistSave

SpecHistory == InitHistory /\ [][NextHistory]_vars

-----------------------------------------------------------------------------
(* Calls of single functions on bounded arguments                           *)

\* an image two rows high and ten million pixels wide, as PNG allows
WideImage == << 10000000, 2 >>

\* the [x, y, w, h] pixel boxes inside a W x H image, all of them for images
\* up to 20 x 20; for larger images the boxes between sampled coordinates
BoxCoords(dim) ==
    IF dim <= 20 THEN 0..dim
    ELSE { 0, 1, 4, 7, 29, 100, dim - 1, dim } \cap 0..Min(dim, 2000)

InBoundsBoxes(img) ==
    { b \in { << x, y, x2 - x, y2 - y >> :
                 x \in BoxCoords(img[1]), x2 \in BoxCoords(img[1]),
                 y \in BoxCoords(img[2]), y2 \in BoxCoords(img[2]) } :
        b[3] >= 1 /\ b[4] >= 1 }


\* int(v * dim) for a float v of m millionths: the values the float product
\* can truncate to. A product that is a whole number exactly can come out
\* just below it (0.29 * 100 is 28.999999999999996).
RenderCoords(m, dim) ==
    LET whole == m * (dim \div Million) + (m * (dim % Million)) \div Million
        exact == (m * (dim % Million)) % Million = 0
    IN  IF exact /\ whole > 0 THEN { whole - 1, whole } ELSE { whole }

\* x1, y1, x2, y2 of draw_bounding_boxes for a normalized bbox, clamped to the
\* image
RenderedCorners(bbox, img_width, img_height) ==
    { << Max(0, Min(x1, img_width)), Max(0, Min(y1, img_height)),
         Max(0, Min(x2, img_width)), Max(0, Min(y2, img_height)) >> :
        x1 \in RenderCoords(bbox[1], img_width),
        y1 \in RenderCoords(bbox[2], img_height),
        x2 \in RenderCoords(bbox[1] + bbox[3], img_width),
        y2 \in RenderCoords(bbox[2] + bbox[4], img_height) }

\* detect_avocados_with_model builds bbox_normalized of a clamped box
Normalize ==
    /\ fn_pc = "normalize"
    /\ fn_ret' = [ fn_ret EXCEPT
                     !.norm = NormalizeRounded(fn_args.box, fn_args.img[1],
                                               fn_args.img[2]) ]
    /\ fn_pc' = "render"
    /\ UNCHANGED << fn_name, fn_args, modelVars, pipeVars, nmsVars, histVars, concVars >>

\* draw_bounding_boxes converts the normalized box to absolute coordinates
Render ==
    /\ fn_pc = "render"
    /\ \E px \in RenderedCorners(fn_ret.norm, fn_args.img[1], fn_args.img[2]) :
          fn_ret' = [ fn_ret EXCEPT !.px = px ]
    /\ fn_pc' = "done"
    /\ UNCHANGED << fn_name, fn_args, modelVars, pipeVars, nmsVars, histVars, concVars >>

\* rows of a (1,N,5) tensor: the first `corner` rows have x2 > x1 and y2 > y1,
\* the `centre` rows after them do not
MixedRows(corner, centre) ==
    [k \in 1..(corner + centre) |->
        IF k <= corner THEN << 0, 0, 2, 2, 90 >> ELSE << 2, 2, 1, 1, 50 >>]

\* what np.array(raw_output) can be: the detector outputs, longer (1,N,5)
\* tensors, and arrays of other shapes
ParserInputs ==
    RawOutputs
    \cup { RawOutput(FALSE, 3, 5, MixedRows(c[1], c[2]), << >>) :
            c \in { << 6, 5 >>, << 7, 4 >>, << 16, 14 >>, << 17, 13 >>, << 17, 14 >> } }
    \cup { RawOutput(FALSE, 2, 2, << << 0, 0 >>, << 2, 2 >> >>, << >>),      \* (2,2)
           RawOutput(FALSE, 2, 5, << << 0, 0, 2, 2, 90 >>,
                                     << 2, 1, 4, 4, 50 >> >>, << >>),        \* (2,5)
           RawOutput(FALSE, 3, 3, << << 0, 0, 2 >>, << 2, 1, 4 >> >>, << >>), \* (1,2,3)
           RawOutput(FALSE, 3, 3, << >>, << >>) }                            \* (1,0,3)

\* _parse_candidates(raw_output)
ParseCall ==
    /\ fn_pc = "parse"
    /\ fn_ret' = [ fn_ret EXCEPT !.parsed = _parse_candidates(fn_args.raw) ]
    /\ fn_pc' = IF fn_name = "pixel_box" THEN "pixel" ELSE "done"
    /\ UNCHANGED << fn_name, fn_args, modelVars, pipeVars, nmsVars, histVars, concVars >>

\* detect_avocados_with_model converts a candidate to a pixel box
PixelCall ==
    /\ fn_pc = "pixel"
    /\ fn_ret' = [ fn_ret EXCEPT
                     !.pixel = [k \in 1..Len(fn_ret.parsed.cands) |->
                                   PixelBox(fn_ret.parsed.cands[k],
                                            fn_args.img[1], fn_args.img[2])] ]
    /\ fn_pc' = "clamp"
    /\ UNCHANGED << fn_name, fn_args, modelVars, pipeVars, nmsVars, histVars, concVars >>

\* cv_boxes.append([x, y, max(1, w), max(1, h)])
CvBox(px) == << px[1], px[2], Max(1, px[3]), Max(1, px[4]) >>

\* detect_avocados_with_model clamps the boxes that passed the size filter
\* (an empty entry stands for a box the filter dropped)
ClampCall ==
    /\ fn_pc = "clamp"
    /\ fn_ret' = [ fn_ret EXCEPT
                     !.clamped = [k \in 1..Len(fn_ret.pixel) |->
                                     IF TooSmall(fn_ret.pixel[k]) THEN << >>
                                     ELSE ClampBox(CvBox(fn_ret.pixel[k]),
                                                   fn_args.img[1], fn_args.img[2])] ]
    /\ fn_pc' = "done"
    /\ UNCHANGED << fn_name, fn_args, modelVars, pipeVars, nmsVars, histVars, concVars >>

\* objects in the photo as x-first corners [x1, y1, x2, y2], in units of
\* 1/CoordDen: normalized ones, and one in pixels
ObjectBoxes ==
    { << 2, 1, 4, 4 >>, << 0, 2, 3, 4 >>, << 0, 0, 2, 2 >>,
      << 8, 16, 60, 100 >>,       \* pixels (2,4)-(15,25)
      << -8, 16, 60, 200 >>,      \* pixels, starting left of the image
      << 20, -12, 48, 40 >>,      \* pixels, starting above the image
      << 120, 16, 300, 200 >> }   \* pixels, past the right and lower edges

\* the row a detector writes for an object: x-first, or y-first as the
\* TensorFlow object-detection export does
Emitted(box, order) ==
    IF order = "yx" THEN << box[2], box[1], box[4], box[3] >> ELSE box

\* the outputs of every shape that carry the one object
OutputsCarrying(box, order) ==
    LET row == Emitted(box, order)
    IN  { RawOutput(TRUE, 3, 4, << row >>, << 90 >>),
          RawOutput(FALSE, 3, 5, << row \o << 90 >> >>, << >>),
          RawOutput(FALSE, 3, 4, << row >>, << >>),
          RawOutput(FALSE, 2, 5, << row \o << 90 >> >>, << >>),
          RawOutput(FALSE, 1, 4, << row >>, << >>) }

InitFn ==
    /\ detector_model = TRUE /\ ripeness_model = TRUE
    /\ leaves_model = TRUE /\ fruit_model = TRUE
    /\ pc = "idle"
    /\ endpoint = "ripeness"
    /\ request = NoRequest
    /\ image = NoImage
    /\ detections = << >>
    /\ detPath = None
    /\ detLocals = NoLocals
    /\ classified = << >>
    /\ clfPaths = << >>
    /\ clfRaw = << >>
    /\ failedAt = None
    /\ response = NoResponse
    /\ nms_boxes = << >> /\ nms_scores = << >> /\ nms_thresh = << 0, 1 >>
    /\ nms_order = << >> /\ nms_kept = << >> /\ nms_pc = "off"
    /\ nms_ctx = DirectCall
    /\ HistIdle
    /\ fn_ret = NoReturn
    /\ \/ /\ fn_name = "bbox_normalized"
          /\ \E img \in ImageSizes \cup { WideImage } :
                \E box \in InBoundsBoxes(img) :
                    fn_args = [ img |-> img, box |-> box, raw |-> NoRaw, order |-> None ]
          /\ fn_pc = "normalize"
       \/ /\ fn_name = "_parse_candidates"
          /\ \E raw \in ParserInputs :
                fn_args = [ img |-> NoImage, box |-> << >>, raw |-> raw, order |-> None ]
          /\ fn_pc = "parse"
       \/ /\ fn_name = "pixel_box"
          /\ \E img \in ImageSizes, box \in ObjectBoxes, order \in { "xy", "yx" } :
                \E raw \in OutputsCarrying(box, order) :
                    fn_args = [ img |-> img, box |-> box, raw |-> raw, order |-> order ]
          /\ fn_pc = "parse"
    /\ ConcIdle

NextFn == Normalize \/ Render \/ ParseCall \/ PixelCall \/ ClampCall

SpecFn == InitFn /\ [][NextFn]_vars

InitConc ==
    /\ \E m \in LoadOutcomes :
          /\ detector_model = m.detector
          /\ ripeness_model = m.ripeness
          /\ leaves_model = m.leaves
          /\ fruit_model = m.fruit
    /\ pc = "idle"
    /\ endpoint = "ripeness"
    /\ request = NoRequest
    /\ image = NoImage
    /\ detections = << >>
    /\ detPath = None
    /\ detLocals = NoLocals
    /\ classified = << >>
    /\ clfPaths = << >>
    /\ clfRaw = << >>
    /\ failedAt = None
    /\ response = NoResponse
    /\ nms_boxes = << >> /\ nms_scores = << >> /\ nms_thresh = << 0, 1 >>
    /\ nms_order = << >> /\ nms_kept = << >> /\ nms_pc = "off"
    /\ nms_ctx = DirectCall
    /\ HistIdle
    /\ FnIdle
    /\ ConcIdle

NextConc == \E w \in Workers : ConcReceive(w) \/ ConcStep(w)

SpecConc == InitConc /\ [][NextConc]_vars

Init ==
    /\ \E m \in LoadOutcomes :
          /\ detector_model = m.detector
          /\ ripeness_model = m.ripeness
          /\ leaves_model = m.leaves
          /\ fruit_model = m.fruit
    /\ pc = "idle"
    /\ endpoint = "ripeness"
    /\ request = NoRequest
    /\ image = NoImage
    /\ detections = << >>
    /\ detPath = None
    /\ detLocals = NoLocals
    /\ classified = << >>
    /\ clfPaths = << >>
    /\ clfRaw = << >>
    /\ failedAt = None
    /\ response = NoResponse
    /\ nms_boxes = << >> /\ nms_scores = << >> /\ nms_thresh = << 0, 1 >>
    /\ nms_order = << >> /\ nms_kept = << >> /\ nms_pc = "off"
    /\ nms_ctx = DirectCall
    /\ HistIdle
    /\ FnIdle
    /\ ConcIdle

Next ==
    \/ Receive
    \/ RipenessParse
    \/ RipenessDetect
    \/ RipenessClassify
    \/ RipenessRespond
    \/ \E ep \in { "leaves", "fruitdisease" } : ColourParse(ep)
    \/ \E ep \in { "leaves", "fruitdisease" } : ColourDetect(ep)
    \/ \E ep \in { "leaves", "fruitdisease" } : ColourClassify(ep)
    \/ \E ep \in { "leaves", "fruitdisease" } : ColourRespond(ep)
    \/ Finish

Spec == Init /\ [][Next]_vars

-----------------------------------------------------------------------------
(* One call of non_max_suppression on bounded inputs                       *)

\* corner boxes handed to non_max_suppression
NMSBoxSet ==
    { << 0, 0, 1, 1 >>, << 0, 0, 2, 1 >>, << 0, 0, 2, 2 >>, << 1, 0, 3, 2 >> }

NMSScoreSet == { 1, 2 }

\* iou_thresh: cfg.NMS_THRESH = 0.45, and 1/(2 + 1e-6), the iou of two boxes
\* with intersection 1 and union 2
NMSThresholds == { << 45, 100 >>, << 1000000, 2000001 >> }

\* cells of the grid whose values are not all zero: [gj, gi, ai] and
\* p = (tx, ty, tw, th, objectness, class confidence)
GridCells ==
    { [gj |-> 4, gi |-> 4, ai |-> 2, p |-> << 0, 0, 0, 0, Saturating, Saturating >>],
      [gj |-> 0, gi |-> 0, ai |-> 1, p |-> << -Saturating, -Saturating, 0, 0, Saturating, 0 >>],
      [gj |-> 4, gi |-> 5, ai |-> 3, p |-> << 0, 0, 0, 0, 0, Saturating >>],
      [gj |-> 9, gi |-> 9, ai |-> 1,
       p |-> << Saturating, Saturating, -Saturating, 0, Saturating, Saturating >>],
      [gj |-> 4, gi |-> 4, ai |-> 3,
       p |-> << 0, 0, Saturating, Saturating, Saturating, Saturating >>],
      [gj |-> 2, gi |-> 2, ai |-> 1, p |-> << 0, 0, 0, 0, 0, 0 >>],
      [gj |-> 2, gi |-> 7, ai |-> 2, p |-> << 0, 0, 0, 0, -Saturating, Saturating >>] }

\* position of a cell in "for gj ... for gi ... for ai"
ScanKey(c) == (c.gj * GRID_W + c.gi) * Len(ANCHORS) + c.ai

\* grids: the listed cells in scan order; every other cell is silent
Grids ==
    { g \in SeqsUpTo(GridCells, MaxBoxes) :
        \A k \in 1..(Len(g) - 1) : ScanKey(g[k]) < ScanKey(g[k + 1]) }

\* a call of decode_predictions(grid), conf_thresh left at its default
DecodeCall ==
    [caller |-> "decode_predictions", calls |-> 1, boxes |-> << >>,
     areaUnits |-> DecodeDen * DecodeDen]

\* decode_predictions up to its call of non_max_suppression; "if dets:"
\* skips the call when no cell passed
DecodePredictions ==
    /\ nms_pc = "decode"
    /\ \E grid \in Grids :
          LET dets == DecodeDets(grid, CONF_THRESH)
          IN  /\ nms_boxes' = [k \in 1..Len(dets) |-> dets[k].box]
              /\ nms_scores' = [k \in 1..Len(dets) |-> dets[k].score]
              /\ nms_pc' = IF dets = << >> THEN "done" ELSE "call"
    /\ UNCHANGED << nms_thresh, nms_order, nms_kept, nms_ctx, modelVars, pipeVars, histVars, fnVars, concVars >>

InitNMS ==
    /\ detector_model = TRUE /\ ripeness_model = TRUE
    /\ leaves_model = TRUE /\ fruit_model = TRUE
    /\ pc = "idle"
    /\ endpoint = "ripeness"
    /\ request = NoRequest
    /\ image = NoImage
    /\ detections = << >>
    /\ detPath = None
    /\ detLocals = NoLocals
    /\ classified = << >>
    /\ clfPaths = << >>
    /\ clfRaw = << >>
    /\ failedAt = None
    /\ response = NoResponse
    /\ nms_order = << >>
    /\ nms_kept = << >>
    /\ \/ /\ \E n \in 0..MaxBoxes :
                /\ nms_boxes \in [1..n -> NMSBoxSet]
                /\ nms_scores \in [1..n -> NMSScoreSet]
          /\ nms_thresh \in NMSThresholds
          /\ nms_pc = "call"
          /\ nms_ctx = DirectCall
       \/ /\ nms_boxes = << >> /\ nms_scores = << >>
          /\ nms_thresh = << NMS_THRESH, 100 >>
          /\ nms_pc = "decode"
          /\ nms_ctx = DecodeCall
    /\ HistIdle
    /\ FnIdle
    /\ ConcIdle

NextNMS == DecodePredictions \/ NMSCall \/ NMSStep \/ NMSReturn \/ NMSAgain

SpecNMS == InitNMS /\ [][NextNMS]_vars

-----------------------------------------------------------------------------
(* Vocabulary of the properties                                            *)

Answered == pc = "done"
Succeeded == pc = "done" /\ response.body.success
RespDetections == response.body.detections

ColourEndpoints == { "leaves", "fruitdisease" }

\* the fixed class list of the endpoint
ClassSet(ep) ==
    IF ep = "ripeness" THEN { CLASS_NAMES[i] : i \in 1..Len(CLASS_NAMES) }
                       ELSE { CLASSES[i] : i \in 1..Len(CLASSES) }

RECURSIVE SumNumerators(_, _)
SumNumerators(ap, keys) ==
    IF keys = { } THEN 0
    ELSE LET k == CHOOSE k \in keys : TRUE
         IN  ap[k][1] + SumNumerators(ap, keys \ { k })

\* sum(all_probabilities.values()) is within 1e-4 of 1.0
SumsToOne(ap) ==
    LET d     == ap[CHOOSE k \in DOMAIN ap : TRUE][2]
        total == SumNumerators(ap, DOMAIN ap)
    IN  /\ \A k \in DOMAIN ap : ap[k][2] = d
        /\ d > 0
        /\ 10000 * (total - d) <= d
        /\ 10000 * (d - total) <= d

\* a POST with no image field and no body
EmptyPost(req) == req.files = "absent" /\ req.form = "absent" /\ ~req.data

\* the detector returned the whole-image box because it located nothing
FellBack == detPath \in { "no_detector", "no_candidates", "all_filtered",
                          "nms_empty", "fallback" }

-----------------------------------------------------------------------------
(* C1: the detection stage never yields zero detections: whenever a        *)
(* detector has returned, on any of its paths, the list it returned is not *)
(* empty, and every success:true response has count >= 1.                  *)
C1_NeverZeroDetections ==
    /\ pc = "classify" => Len(detections) >= 1
    /\ Succeeded => response.body.count >= 1 /\ Len(RespDetections) >= 1

\* a ripeness request whose detector output was all removed by NMSBoxes
C1_Witness ==
    /\ Succeeded /\ endpoint = "ripeness"
    /\ detPath = "nms_empty"
    /\ response.body.count = 1

\* C2: for every Classification returned by a region classifier, on every
\* return path, the reported confidence equals all_probabilities[label].
C2_ConfidenceIsLabelProbability ==
    \A k \in 1..Len(classified) :
        FloatEq(classified[k].confidence,
                classified[k].all_probabilities[classified[k].class])

C4_EmptyPostIs400 ==
    Answered /\ EmptyPost(request) =>
        /\ response.status = 400 /\ ~response.body.success
        /\ detPath = None /\ clfPaths = << >>

\* C4 as amended: a POST with no image field and no body is answered with
\* success:false and no detection or classification step runs for it; the
\* status is 400, except that leaves and fruitdisease answer 500 when their
\* model is not loaded (they test the model before the request).
C4_EmptyPostRejected ==
    pc # "idle" /\ EmptyPost(request) =>
        /\ pc \in { "parse", "done" }
        /\ detections = << >> /\ detPath = None
        /\ classified = << >> /\ clfPaths = << >>
        /\ Answered =>
              /\ ~response.body.success
              /\ response.status =
                    IF endpoint \in ColourEndpoints /\ ~ModelOf(endpoint)
                    THEN 500 ELSE 400

\* an empty POST to /api/leaves/predict, model loaded, answered 400
C4_Witness ==
    /\ Answered /\ EmptyPost(request)
    /\ endpoint = "leaves" /\ leaves_model
    /\ response.status = 400

\* the body of an error response: success:false, an error message, no more
ErrorShape == DOMAIN response.body = { "success", "error" } /\ ~response.body.success

\* the body of a success response: the full detection list and its count
SuccessShape ==
    /\ response.body.success
    /\ "detections" \in DOMAIN response.body
    /\ Len(RespDetections) = Len(detections)
    /\ response.body.count = Len(RespDetections)

\* the request fails the endpoint's input validation
ValidationFails ==
    IF endpoint = "ripeness"
    THEN _parse_image(request).raised \/ _parse_image(request).bytes.nbytes < 100
    ELSE request.files = "absent"

\* an exception was raised while a region was classified
ClassifierRaised ==
    failedAt = "classify" \/ \E k \in 1..Len(clfPaths) : clfPaths[k] = "exception"

\* C5 as claimed: every response is success-or-error; an exception raised
\* in any stage after input validation gives HTTP 500; an input-validation
\* failure gives HTTP 400.
C5_SuccessOrErrorAsClaimed ==
    Answered =>
        /\ SuccessShape \/ ErrorShape
        /\ failedAt \in { "decode", "detect" } \/ ClassifierRaised
              => response.status = 500
        /\ ValidationFails => response.status = 400

\* C5 as amended: every response is success-or-error: success:true with the
\* full detection list (200), or success:false with an error message and no
\* detection data. An exception that escapes a stage after input validation
\* gives 500; an exception inside ripeness's classify_region does not escape
\* (the region gets the neutral classification and the request succeeds).
\* An input-validation failure gives 400, except that leaves and fruitdisease
\* answer 500 to every request while their model is not loaded.
C5_SuccessOrError ==
    Answered =>
        /\ \/ SuccessShape /\ response.status = 200 /\ failedAt = None
           \/ ErrorShape /\ response.status \in { 400, 500 } /\ failedAt # None
        /\ failedAt \in { "decode", "detect", "classify" } => response.status = 500
        /\ (\E k \in 1..Len(clfPaths) : clfPaths[k] = "exception")
              => endpoint = "ripeness" /\ response.status = 200
        /\ ValidationFails =>
              response.status = IF endpoint \in ColourEndpoints /\ ~ModelOf(endpoint)
                                THEN 500 ELSE 400
        /\ (~ValidationFails /\ request.payload.img = NoImage)
              => response.status = 500

\* the detector's predict call (or the parsing of its output) raised in a
\* ripeness request that had passed validation: answered 500
C5_Witness ==
    /\ Answered /\ endpoint = "ripeness"
    /\ ~ValidationFails
    /\ failedAt = "detect"
    /\ response.status = 500

AreaNonIncreasing(list) ==
    \A k \in 1..(Len(list) - 1) :
        Area(list[k].bbox_absolute) >= Area(list[k + 1].bbox_absolute)

C7_PrimaryIsFirst ==
    Succeeded =>
        LET first == RespDetections[1]
            pred  == response.body.prediction
        IN  /\ pred.confidence = first.confidence
            /\ pred.bbox = first.bbox
            /\ IF endpoint = "ripeness"
               THEN /\ pred.ripeness = first.class
                    /\ response.body.all_probabilities = first.all_probabilities
               ELSE /\ pred.class = first.class
                    /\ pred.all_probabilities = first.all_probabilities

\* a leaves response whose first element is not the largest box
C7_Witness ==
    /\ Succeeded /\ endpoint = "leaves"
    /\ Len(RespDetections) >= 2
    /\ RespDetections[1].id # 1
    /\ response.body.prediction.class = RespDetections[1].class
    /\ response.body.prediction.class # RespDetections[2].class

\* C8: every detection in a /predict response of any of the three endpoints
\* carries an is_fallback flag, true exactly when the detection is the
\* full-image fallback box and false when it is a located region.
C8_FallbackFlagged ==
    Succeeded =>
        \A k \in 1..Len(RespDetections) :
            /\ "is_fallback" \in DOMAIN RespDetections[k]
            /\ RespDetections[k].is_fallback = FellBack

-----------------------------------------------------------------------------
(* Properties of non_max_suppression, checked under SpecNMS                *)

NMSDone == nms_pc = "done"
Kept == { nms_kept[k] : k \in 1..Len(nms_kept) }
Discarded == (1..Len(nms_boxes)) \ Kept

\* C9 as claimed: non_max_suppression discards an unselected box exactly when
\* its IoU with a selected box exceeds iou_threshold, so a box whose IoU with
\* every selected box is less than or equal to the threshold is kept.
C9_KeptAtThreshold ==
    NMSDone =>
        \A j \in 1..Len(nms_boxes) :
            (\A i \in Kept \ {j} : IouLeq(nms_boxes[i], nms_boxes[j], nms_thresh))
                => j \in Kept

\* C9 as amended: non_max_suppression discards an unselected box exactly when
\* its IoU with a selected box is greater than or equal to iou_thresh; a box
\* is kept exactly when its IoU with every other selected box is strictly
\* less than the threshold.
C9_DiscardsAtOrAboveThreshold ==
    NMSDone =>
        \A j \in 1..Len(nms_boxes) :
            j \in Discarded
                <=> \E i \in Kept \ {j} :
                        ~IouLess(nms_boxes[i], nms_boxes[j], nms_thresh)

\* a box is discarded although its IoU with no selected box exceeds the
\* threshold: it equals the threshold for one of them
C9_Witness ==
    /\ NMSDone
    /\ \E j \in Discarded :
          /\ \A i \in Kept : IouLeq(nms_boxes[i], nms_boxes[j], nms_thresh)
          /\ \E i \in Kept : IouEq(nms_boxes[i], nms_boxes[j], nms_thresh)
    /\ \E j \in Discarded, i \in Kept :
          ~IouLeq(nms_boxes[i], nms_boxes[j], nms_thresh)

ScoresNonIncreasing(order) ==
    \A k \in 1..(Len(order) - 1) : nms_scores[order[k]] >= nms_scores[order[k + 1]]

C11_Idempotent ==
    (NMSDone /\ nms_ctx.calls = 2) => Kept = 1..Len(nms_boxes)

\* a first call discarded a box and kept two, and the second call is over
C11_Witness ==
    /\ NMSDone /\ nms_ctx.calls = 2
    /\ Len(nms_ctx.boxes) > Len(nms_boxes)
    /\ Len(nms_boxes) >= 2
    /\ Len(nms_kept) >= 2

\* C12: iou(a, a) returns exactly 1.0 for every corner-form box a with
\* positive width and height.
C12_SelfIouIsOne ==
    \A k \in 1..Len(nms_boxes) : IouIsOne(iou(nms_boxes[k], nms_boxes[k]))

\* C13: iou is symmetric: for any two corner-form boxes a and b,
\* iou(a, b) = iou(b, a).
C13_IouSymmetric ==
    \A i, j \in 1..Len(nms_boxes) :
        iou(nms_boxes[i], nms_boxes[j]) = iou(nms_boxes[j], nms_boxes[i])

\* non_max_suppression has compared two overlapping boxes of different area
C13_Witness ==
    /\ NMSDone
    /\ \E i \in Kept, j \in Discarded :
          /\ IouInter(nms_boxes[i], nms_boxes[j]) > 0
          /\ IouUnion(nms_boxes[i], nms_boxes[i]) # IouUnion(nms_boxes[j], nms_boxes[j])
          /\ iou(nms_boxes[i], nms_boxes[j])[1] < iou(nms_boxes[i], nms_boxes[j])[2]

\* C14: no box of zero width or zero height is ever passed to NMS; here for
\* decode_predictions, after its boxes are clamped to [0,1].
C14_NoDegenerateBoxToNMS ==
    (nms_ctx.caller = "decode_predictions" /\ nms_pc \in { "call", "loop" })
        => \A k \in 1..Len(nms_boxes) :
               /\ nms_boxes[k][3] > nms_boxes[k][1]
               /\ nms_boxes[k][4] > nms_boxes[k][2]

\* C15: with dynamic_thresh = min(DETECTION_THRESHOLD, 0.40 * max score)
\* computed over a non-empty candidate batch, the highest-scoring candidate
\* is never rejected by the score filter, whatever the scores are.
C15_TopCandidatePassesFilter ==
    detLocals.all_scores # << >> =>
        ~BelowThresh(SeqMax(detLocals.all_scores), detLocals.dynamic_thresh)

\* the request carries a decodable image in one of the three encodings
CarriesValidImage(req) ==
    /\ req.payload.img # NoImage
    /\ req.files = "ok" \/ req.form \in { "b64", "datauri" } \/ req.data

\* the handler got as far as calling its detector
ReachedDetection ==
    \/ pc \in { "detect", "classify" }
    \/ pc = "done" /\ failedAt \notin { "validation", "model_check", "decode" }

C17_ClassifierFailureAbsorbed ==
    (Answered /\ ClassifierRaised) =>
        /\ response.status = 200 /\ response.body.success
        /\ Len(classified) = Len(detections)
        /\ Len(RespDetections) = Len(detections)

\* C18: an exception raised inside the detection stage (the detector's
\* predict call or the parsing of its output) does not abort the request:
\* the detector ends in the full-image box and the response is success:true.
C18_DetectorFailureFallsBack ==
    (Answered /\ endpoint = "ripeness" /\ failedAt = "detect") =>
        /\ response.body.success
        /\ FellBack /\ Len(detections) = 1

\* vocabulary of the history properties
HistAnswered == hist_pc = "done"
DrawFailed == hist_trace = "draw"
DrawnRecord == create_ripeness_analysis(hist_data, image_urls)

LooksLikeProbabilities(raw) == ~OutsideUnitRange(raw) /\ SeqSum(raw) = ProbDen

\* C20: in all three region classifiers the model's raw output is reported
\* as probabilities unchanged only when every value lies in [0,1] and the
\* values sum to 1; in every other case the max-subtracted softmax of the raw
\* output is what all_probabilities and confidence report.
C20_SoftmaxUnlessProbabilities ==
    \A k \in 1..Len(classified) :
        clfPaths[k] = "model" =>
            LET raw      == clfRaw[k]
                names    == IF endpoint = "ripeness" THEN CLASS_NAMES ELSE CLASSES
                expected == IF LooksLikeProbabilities(raw) THEN AsFloats(raw)
                                                           ELSE Softmax(raw)
            IN  \A i \in 1..Len(names) :
                    /\ FloatEq(classified[k].all_probabilities[names[i]], expected[i])
                    /\ classified[k].class = names[i] =>
                           FloatEq(classified[k].confidence, expected[i])

\* the [x, y, w, h] box lies inside the img[1] x img[2] image, with positive size
InsideImage(b, img) ==
    /\ 0 <= b[1] /\ 0 <= b[2]
    /\ b[3] >= 1 /\ b[4] >= 1
    /\ b[1] + b[3] <= img[1] /\ b[2] + b[4] <= img[2]

\* C21: every detection box [x, y, w, h] (bbox_absolute) of a /predict
\* response lies inside the W x H image with positive size: 0 <= x, 0 <= y,
\* w >= 1, h >= 1, x + w <= W and y + h <= H, whatever the detector returned;
\* the same holds of the boxes handed from detection to classification.
C21_BoxesInsideImage ==
    /\ Succeeded =>
          \A k \in 1..Len(RespDetections) :
              InsideImage(RespDetections[k].bbox_absolute, image)
    /\ pc = "classify" =>
          \A k \in 1..Len(detections) :
              InsideImage(IF endpoint = "ripeness" THEN detections[k].bbox
                                                   ELSE detections[k], image)

\* a candidate reaching from x = -2 to y = 50 was answered as a box clamped to
\* the last row of a 4 x 3 image
C21_Witness ==
    /\ Succeeded /\ endpoint = "ripeness" /\ detPath = "detected"
    /\ image = << 4, 3 >>
    /\ \E k \in 1..Len(RespDetections) :
          RespDetections[k].bbox_absolute = << 0, 2, 4, 1 >>

\* vocabulary of the round trip: the box given, the corners drawn
RoundTripDone == fn_name = "bbox_normalized" /\ fn_pc = "done"
Corners(b) == << b[1], b[2], b[1] + b[3], b[2] + b[4] >>
Dim(img, i) == IF i \in { 1, 3 } THEN img[1] ELSE img[2]
Distance(a, b) == IF a >= b THEN a - b ELSE b - a

\* C22 as stated: for any image size and any in-bounds pixel box, normalizing
\* the box as the ripeness endpoint does and converting it back to pixels as
\* the renderer does reproduces x, y, x+w and y+h within one pixel.
C22_RoundTripWithinOnePixel ==
    RoundTripDone =>
        \A i \in 1..4 : Distance(fn_ret.px[i], Corners(fn_args.box)[i]) <= 1

\* C22: the round trip reproduces each of x, y, x+w and y+h as the same pixel
\* or the one before it while the image dimension is below 1,000,000; for any
\* dimension the result is at most dimension/1,000,000 + 1 pixels away.
C22_RoundTripWithinRounding ==
    RoundTripDone =>
        \A i \in 1..4 :
            LET given == Corners(fn_args.box)[i]
                drawn == fn_ret.px[i]
                dim   == Dim(fn_args.img, i)
            IN  /\ Distance(drawn, given) <= dim \div Million + 1
                /\ dim < Million => given - 1 <= drawn /\ drawn <= given

\* y = 1 of a 4 x 3 image came back as 0: int(0.333333 * 3)
C22_Witness ==
    /\ RoundTripDone
    /\ fn_args.img = << 4, 3 >>
    /\ fn_args.box[2] = 1 /\ fn_ret.norm[2] = 333333
    /\ fn_ret.px[2] = 0

\* vocabulary of the concurrency property: the request as it arrived
Arrival(rec) ==
    [ rec EXCEPT !.pc = "parse", !.image = NoImage, !.detections = << >>,
                 !.classified = << >>, !.response = NoResponse,
                 !.overlapped = FALSE ]

C24_KeptApartDiscardedCovered ==
    NMSDone =>
        /\ \A i, j \in Kept :
              i # j => IouLess(nms_boxes[i], nms_boxes[j], nms_thresh)
        /\ \A j \in Discarded :
              \E i \in Kept :
                  /\ ~IouLess(nms_boxes[i], nms_boxes[j], nms_thresh)
                  /\ nms_scores[i] >= nms_scores[j]
        /\ nms_boxes # << >> =>
              \E i \in Kept : \A j \in 1..Len(nms_boxes) : nms_scores[i] >= nms_scores[j]

\* a call that kept two boxes and discarded a third of strictly lower score
\* than the kept box it overlaps
C24_Witness ==
    /\ NMSDone /\ nms_ctx.calls = 1
    /\ Cardinality(Kept) >= 2
    /\ \E j \in Discarded, i \in Kept :
          /\ ~IouLess(nms_boxes[i], nms_boxes[j], nms_thresh)
          /\ nms_scores[i] > nms_scores[j]

-----------------------------------------------------------------------------
(* _parse_candidates, called on its own                                     *)

ParseDone == fn_name = "_parse_candidates" /\ fn_pc = "done"

\* a lone row: shape (1,5), (5,), (1,4) or (4,)
LoneRow(raw) ==
    ~raw.isList /\ raw.ndim \in { 1, 2 } /\ Len(raw.rows) = 1 /\ raw.ncols \in { 4, 5 }

\* the number of candidates the shape of the output calls for
RowsClaimed(raw) ==
    IF raw.isList THEN Len(raw.rows)
    ELSE IF raw.ndim = 3 /\ raw.ncols >= 4 THEN Len(raw.rows)
    ELSE IF LoneRow(raw) THEN 1
    ELSE 0

\* the score the shape of the output calls for in candidate k
ScoreClaimed(raw, k) ==
    IF raw.isList THEN raw.scores[k]
    ELSE IF raw.ncols >= 5 THEN raw.rows[k][5]
    ELSE ScoreDen

\* C25: _parse_candidates returns one candidate per row of paired tensors, of
\* a (1,N,5+) tensor (score = column 4) and of a (1,N,4) tensor (score 1.0),
\* one candidate for a lone row of 5 or 4 values, and an empty list for any
\* other shape.
C25_OneCandidatePerRow ==
    ParseDone =>
        /\ ~fn_ret.parsed.raised
        /\ Len(fn_ret.parsed.cands) = RowsClaimed(fn_args.raw)
        /\ \A k \in 1..Len(fn_ret.parsed.cands) :
              fn_ret.parsed.cands[k].score = ScoreClaimed(fn_args.raw, k)

\* C25, the part the code keeps: tensors with at least one row
C25_NonEmptyTensorsParse ==
    (ParseDone /\ fn_args.raw.rows # << >>
        /\ (fn_args.raw.isList \/ fn_args.raw.ndim = 3 \/ LoneRow(fn_args.raw))
        /\ (fn_args.raw.ndim = 3 => fn_args.raw.ncols >= 4)) =>
        /\ ~fn_ret.parsed.raised
        /\ Len(fn_ret.parsed.cands) = RowsClaimed(fn_args.raw)
        /\ \A k \in 1..Len(fn_ret.parsed.cands) :
              fn_ret.parsed.cands[k].score = ScoreClaimed(fn_args.raw, k)

\* C25: an empty (1,0,5) tensor makes the parser raise
C25_EmptyTensorRaises ==
    ~(ParseDone /\ fn_args.raw = RawOutput(FALSE, 3, 5, << >>, << >>)
        /\ fn_ret.parsed.raised)

\* C25: a (2,2) array yields a candidate
C25_OtherShapeYieldsCandidate ==
    ~(ParseDone /\ fn_args.raw.ndim = 2 /\ fn_args.raw.ncols = 2
        /\ Len(fn_ret.parsed.cands) = 1)

\* a single tensor (1, N, 5+) with at least one row
SingleScored(raw) == ~raw.isList /\ raw.ndim = 3 /\ raw.ncols >= 5 /\ raw.rows # << >>

\* the rows the vote looks at, and the rows among them with x2 > x1, y2 > y1
Sampled(raw) == SubSeq(raw.rows, 1, Min(30, Len(raw.rows)))
CornerVotes(raw) ==
    Cardinality({ k \in 1..Len(Sampled(raw)) :
                    Sampled(raw)[k][3] > Sampled(raw)[k][1]
                    /\ Sampled(raw)[k][4] > Sampled(raw)[k][2] })

\* every row was taken as corners / converted from centre form
TakenAsCorners(raw, cands) ==
    /\ Len(cands) = Len(raw.rows)
    /\ \A k \in 1..Len(cands) : cands[k].box = InBoxUnits(First4(raw.rows[k]))
ConvertedFromCentre(raw, cands) ==
    /\ Len(cands) = Len(raw.rows)
    /\ \A k \in 1..Len(cands) : cands[k].box = _center_to_corner(First4(raw.rows[k]))

\* C26 as stated: for a (1,N,5+) tensor the batch is taken as corners when
\* more than half of the first min(30, N) rows have x2 > x1 and y2 > y1, and
\* every row is converted from centre form otherwise.
C26_MajorityVote ==
    (ParseDone /\ SingleScored(fn_args.raw)) =>
        IF 2 * CornerVotes(fn_args.raw) > Len(Sampled(fn_args.raw))
        THEN TakenAsCorners(fn_args.raw, fn_ret.parsed.cands)
        ELSE ConvertedFromCentre(fn_args.raw, fn_ret.parsed.cands)

\* C26 amended: the batch is taken as corners when at least 55% of the first
\* min(30, N) rows have x2 > x1 and y2 > y1, and every row is converted from
\* centre form otherwise.
C26_FiftyFivePercentVote ==
    (ParseDone /\ SingleScored(fn_args.raw)) =>
        IF 100 * CornerVotes(fn_args.raw) >= 55 * Len(Sampled(fn_args.raw))
        THEN TakenAsCorners(fn_args.raw, fn_ret.parsed.cands)
        ELSE ConvertedFromCentre(fn_args.raw, fn_ret.parsed.cands)

\* 31 rows, 17 of the first 30 in corner form: taken as corners
C26_Witness ==
    /\ ParseDone /\ SingleScored(fn_args.raw)
    /\ Len(fn_args.raw.rows) = 31
    /\ CornerVotes(fn_args.raw) = 17
    /\ TakenAsCorners(fn_args.raw, fn_ret.parsed.cands)

-----------------------------------------------------------------------------
(* coordinate order: parser and pixel conversion on one object              *)

PixelDone == fn_name = "pixel_box" /\ fn_pc = "done"

\* the pixel box [x, y, w, h] of an object given as x-first corners
PixelBoxOf(box, img) ==
    LET sx == IF _is_norm(box) THEN img[1] ELSE 1
        sy == IF _is_norm(box) THEN img[2] ELSE 1
    IN  << Trunc(box[1] * sx, CoordDen), Trunc(box[2] * sy, CoordDen),
           Trunc((box[3] - box[1]) * sx, CoordDen),
           Trunc((box[4] - box[2]) * sy, CoordDen) >>

\* C27: whichever shape carried the boxes, y-first output is swapped to
\* x-first before pixel conversion and x-first output is left unswapped: the
\* pixel box is the object's.
C27_OrderDetected ==
    PixelDone =>
        /\ Len(fn_ret.pixel) = 1
        /\ fn_ret.pixel[1] = PixelBoxOf(fn_args.box, fn_args.img)

\* C27, what the code does: the order is taken from the shape, y-first for
\* paired tensors and x-first for a single tensor
C27_OrderTakenFromShape ==
    (PixelDone /\ (fn_args.raw.isList <=> fn_args.order = "yx")) =>
        /\ Len(fn_ret.pixel) = 1
        /\ fn_ret.pixel[1] = PixelBoxOf(fn_args.box, fn_args.img)

\* C27: a y-first row in a single tensor is converted unswapped
C27_SingleTensorYFirstKept ==
    ~(PixelDone /\ ~fn_args.raw.isList /\ fn_args.order = "yx"
        /\ fn_ret.pixel[1] # PixelBoxOf(fn_args.box, fn_args.img)
        /\ fn_ret.pixel[1] = PixelBoxOf(Emitted(fn_args.box, "yx"), fn_args.img))

\* C27: an x-first row in paired tensors is swapped
C27_PairedXFirstSwapped ==
    ~(PixelDone /\ fn_args.raw.isList /\ fn_args.order = "xy"
        /\ fn_ret.pixel[1] # PixelBoxOf(fn_args.box, fn_args.img))

-----------------------------------------------------------------------------
(* ripeness_routes.py: GET /api/ripeness/classes                            *)

\* get_classes(): the 200 body; of class_info only the level is kept
get_classes ==
    [classes |-> CLASS_NAMES, count |-> Len(CLASS_NAMES),
     class_info |-> [underripe |-> [level |-> 0],
                     ripe      |-> [level |-> 1],
                     overripe  |-> [level |-> 2]]]

RipenessAnswered == Succeeded /\ endpoint = "ripeness"

\* C28: the ripeness_level that /api/ripeness/predict reports equals the
\* level /api/ripeness/classes reports for the same class.
C28_LevelsAgree ==
    RipenessAnswered =>
        response.body.prediction.ripeness_level
            = get_classes.class_info[response.body.prediction.ripeness].level

\* C28: the two endpoints agree on ripe only
C28_LevelsAgreeOnRipe ==
    RipenessAnswered =>
        ((response.body.prediction.ripeness_level
            = get_classes.class_info[response.body.prediction.ripeness].level)
         <=> response.body.prediction.ripeness = "ripe")

-----------------------------------------------------------------------------
(* clamping a candidate box to the image                                    *)

\* the candidate box handed to the clamp is the one that carried the object
\* in its own coordinate order
ClampDone ==
    /\ PixelDone /\ Len(fn_ret.clamped) = 1 /\ fn_ret.clamped[1] # << >>
    /\ (fn_args.raw.isList <=> fn_args.order = "yx")

CandidateBox == CvBox(fn_ret.pixel[1])

\* the box shares at least one pixel with the image
OverlapsImage(b, img) ==
    b[1] < img[1] /\ b[2] < img[2] /\ b[1] + b[3] > 0 /\ b[2] + b[4] > 0

\* the intersection of the box [x, y, w, h] with the image rectangle
ImageIntersection(b, img) ==
    << Max(0, b[1]), Max(0, b[2]),
       Min(b[1] + b[3], img[1]) - Max(0, b[1]),
       Min(b[2] + b[4], img[2]) - Max(0, b[2]) >>

\* every pixel of box a is a pixel of box b
CoveredBy(a, b) ==
    /\ a[1] >= b[1] /\ a[1] + a[3] <= b[1] + b[3]
    /\ a[2] >= b[2] /\ a[2] + a[4] <= b[2] + b[4]

\* C29: for a candidate that overlaps the image, the clamped box is the
\* intersection of the candidate box with the image rectangle, and covers no
\* pixel outside the candidate box.
C29_ClampIsIntersection ==
    (ClampDone /\ OverlapsImage(CandidateBox, fn_args.img)) =>
        /\ fn_ret.clamped[1] = ImageIntersection(CandidateBox, fn_args.img)
        /\ CoveredBy(fn_ret.clamped[1], CandidateBox)

\* C29, the part the code keeps: candidates that start inside the image
C29_ClampFromInside ==
    (ClampDone /\ OverlapsImage(CandidateBox, fn_args.img)
        /\ CandidateBox[1] >= 0 /\ CandidateBox[2] >= 0) =>
        /\ fn_ret.clamped[1] = ImageIntersection(CandidateBox, fn_args.img)
        /\ CoveredBy(fn_ret.clamped[1], CandidateBox)

\* C29: the candidate (-2, 4, 17, 46) in a 40 x 30 image is clamped to
\* (0, 4, 17, 26), two columns wider than the intersection (0, 4, 15, 26)
C29_NegativeStartKeepsWidth ==
    ~(ClampDone /\ fn_args.img = << 40, 30 >>
        /\ CandidateBox = << -2, 4, 17, 46 >>
        /\ fn_ret.clamped[1] = << 0, 4, 17, 26 >>)

-----------------------------------------------------------------------------
(* process_and_upload_images: what stays in Cloudinary                      *)

\* process_and_upload_images was called and has returned
ImagesReturned == hist_pc \in { "save", "done" } /\ hist_trace # "not_called"

\* C30: whenever process_and_upload_images returns None for the image URLs
\* and public ids, no image uploaded during the call remains in storage.
C30_NoOrphanedUpload ==
    (ImagesReturned /\ image_urls = NoUrls) => cloudinary = { }

\* C30, the part the code keeps: nothing is stored when the call fails before
\* or in the first upload
C30_NothingStoredBeforeOriginal ==
    (ImagesReturned /\ hist_trace \in { "validate", "upload_original" }) =>
        cloudinary = { }

\* C30: the original stays in Cloudinary when drawing or the second upload
\* fails
C30_OriginalLeftBehind ==
    ~(/\ ImagesReturned /\ image_urls = NoUrls
      /\ hist_trace \in { "draw", "upload_annotated" }
      /\ cloudinary = { "history/ripeness/user/ripeness_original_" })

====
